---- MODULE Spec2Model ----
(***************************************************************************)
(* The session controller of the Scalekit Vue SDK (createScalekitAuth in   *)
(* src/src/constants.ts) as a state machine: the reactive AuthState, the   *)
(* handle on the protocol engine (oidc-client-ts UserManager), the         *)
(* asynchronous initialize() run, the public operations as calls that      *)
(* suspend at each await, the engine's notifications, and the              *)
(* ScalekitCallback component (src/src/useAccessToken.ts).                 *)
(*                                                                         *)
(* One step of the model is one run-to-completion segment of JavaScript:   *)
(* from the resumption of one await (or one call / one notification) to    *)
(* the next suspension.  The protocol engine is an external collaborator:  *)
(* each of its promises settles with an outcome chosen with \E.            *)
(***************************************************************************)
EXTENDS Integers, Sequences, FiniteSets, TLC

VARIABLES
    config,          \* ScalekitAuthPluginOptions captured by createScalekitAuth
    address,         \* names of the query parameters of window.location
    construction,    \* "pending" | "returned" | "threw": how createScalekitAuth ended
    userManager,     \* "null" | "created": the local  let userManager
    listeners,       \* TRUE once the four engine listeners are registered
    pcInit,          \* where the asynchronous initialize() run stands
    initOutcome,     \* how initialize() ended, "none" while it runs
    state,           \* the reactive AuthState
    lastDispatch,    \* type of the latest dispatch and who issued it
    engineUser,      \* the session the protocol engine has persisted
    pendingResponse, \* TRUE while the engine's state store can match the redirect response
    nextTok,         \* number of access tokens the engine has issued so far
    used,            \* number of operations invoked and notifications raised so far
    calls,           \* the public operations in flight, by call slot
    exchanges,       \* signinRedirectCallback() requests made, per requester
    onErrorCalls,    \* arguments of the onError option's invocations
    onRedirectCalls, \* arguments of onRedirectCallback's invocations (with the state then)
    initLog,         \* dispatch types issued by initialize() and the callback it delegates to
    cb,              \* the ScalekitCallback component
    cleanup,         \* cleanupAuthParams() on its own: the query string and history
    login,           \* the login options given and the extraQueryParams sent for them
    mapping,         \* mapOidcUserToScalekitUser on its own: scope in, scopes out
    observer,        \* a subscriber notified synchronously while dispatch assigns
    guard,           \* a navigation held by the route guard
    token            \* the useAccessToken composable: its refs and what its watcher saw

vars == << config, address, construction, userManager, listeners, pcInit, initOutcome, state, lastDispatch,
           engineUser, pendingResponse, nextTok, used, calls, exchanges, onErrorCalls,
           onRedirectCalls, initLog, cb, cleanup, login, mapping, observer, guard,
           token >>

\* the controller and its component; the parts that are exercised on their own
controller == << config, address, construction, userManager, listeners, pcInit,
                 initOutcome, lastDispatch, engineUser, pendingResponse, nextTok, used,
                 calls, exchanges, onErrorCalls, onRedirectCalls, initLog, cb >>
units == << cleanup, login, mapping, observer, guard, token >>

(***************************************************************************)
(* Bounds of the model.                                                    *)
(***************************************************************************)
\* public operations the application invokes, plus notifications the engine
\* raises on its own, in one run; all of them may be in flight at once
MaxInputs == 2

Slots == 1..MaxInputs

(***************************************************************************)
(* Values.                                                                 *)
(***************************************************************************)
Null == [null |-> TRUE]

\* OIDC_PARAMS, and one parameter that is not an OIDC parameter
OIDC_PARAMS == {"code", "state", "error", "error_description", "session_state"}

\* The error classes; cause is the name of the causing error, "none" for undefined
ScalekitAuthError(name, code, message, cause) ==
    [name |-> name, code |-> code, message |-> message, cause |-> cause]
LoginError(message, cause) == ScalekitAuthError("LoginError", "LOGIN_ERROR", message, cause)
TokenRefreshError(message, cause) ==
    ScalekitAuthError("TokenRefreshError", "TOKEN_REFRESH_ERROR", message, cause)
LogoutError(message, cause) == ScalekitAuthError("LogoutError", "LOGOUT_ERROR", message, cause)
ConfigurationError(message) ==
    ScalekitAuthError("ConfigurationError", "CONFIGURATION_ERROR", message, "none")
CallbackError(message, cause) ==
    ScalekitAuthError("CallbackError", "CALLBACK_ERROR", message, cause)
NotAuthenticatedError(message) ==
    ScalekitAuthError("NotAuthenticatedError", "NOT_AUTHENTICATED_ERROR", message, "none")

\* What a collaborator (the engine, an application callback) can throw: an
\* Error, or a value that is not an Error
PlainError(message) == [name |-> "Error", code |-> "none", message |-> message, cause |-> "none"]
NonErrorValue == [name |-> "nonError", code |-> "none", message |-> "thrown value", cause |-> "none"]
\* the engine rejects with an Error; an application callback throws anything
EngineThrown == {PlainError("engine failure")}
CallbackThrown == {PlainError("callback failure"), NonErrorValue}
InstanceOfError(e) == e.name # "nonError"
\* error instanceof Error ? error : undefined, as the cause of a wrapping error
CauseOf(e) == IF InstanceOfError(e) THEN e.name ELSE "none"

(***************************************************************************)
(* Users.  An engine session (oidc-client-ts User) is modelled by its      *)
(* access token and its  expired  getter; a ScalekitUser by its            *)
(* accessToken.                                                            *)
(***************************************************************************)
OidcUser(tok, expired) == [access_token |-> tok, expired |-> expired]

mapOidcUserToScalekitUser(oidcUser) == [accessToken |-> oidcUser.access_token]

(***************************************************************************)
(* AuthState and dispatch.                                                 *)
(***************************************************************************)
initialAuthState ==
    [isLoading |-> TRUE, isAuthenticated |-> FALSE, user |-> Null, error |-> Null]

Action(type, user, error) == [type |-> type, user |-> user, error |-> error]

\* A dispatch whose ERROR case assigns only  error  and  isLoading
dispatchErrorKeepsUser(s, action) ==
    CASE action.type \in {"INITIALIZING", "LOGIN_STARTED"} ->
           [isLoading |-> TRUE, isAuthenticated |-> FALSE, user |-> Null, error |-> Null]
      [] action.type \in {"INITIALIZED", "LOGIN_COMPLETED", "TOKEN_REFRESHED"} ->
           IF action.user # Null
           THEN [isLoading |-> FALSE, isAuthenticated |-> TRUE,
                 user |-> action.user, error |-> Null]
           ELSE [isLoading |-> FALSE, isAuthenticated |-> FALSE,
                 user |-> Null, error |-> Null]
      [] action.type = "LOGOUT_COMPLETED" ->
           [isLoading |-> FALSE, isAuthenticated |-> FALSE, user |-> Null, error |-> Null]
      [] action.type = "ERROR" ->
           [s EXCEPT !.isLoading = FALSE, !.error = action.error]
      [] OTHER -> s

\* A dispatch in which a session already held outlives LOGIN_STARTED
dispatchKeepingSession(s, action) ==
    CASE action.type = "INITIALIZING" ->
           [isLoading |-> TRUE, isAuthenticated |-> FALSE, user |-> Null, error |-> Null]
      [] action.type = "LOGIN_STARTED" ->
           IF s.isAuthenticated THEN s
           ELSE [isLoading |-> TRUE, isAuthenticated |-> FALSE,
                 user |-> Null, error |-> Null]
      [] action.type \in {"INITIALIZED", "LOGIN_COMPLETED", "TOKEN_REFRESHED"} ->
           IF action.user # Null
           THEN [isLoading |-> FALSE, isAuthenticated |-> TRUE,
                 user |-> action.user, error |-> Null]
           ELSE [isLoading |-> FALSE, isAuthenticated |-> FALSE,
                 user |-> Null, error |-> Null]
      [] action.type = "LOGOUT_COMPLETED" ->
           [isLoading |-> FALSE, isAuthenticated |-> FALSE, user |-> Null, error |-> Null]
      [] action.type = "ERROR" ->
           [isLoading |-> FALSE, isAuthenticated |-> FALSE,
            user |-> Null, error |-> action.error]
      [] OTHER -> s

\* dispatch assigns the four fields in place; no suspension inside
dispatch(s, action) ==
    CASE action.type = "INITIALIZING" ->
           [isLoading |-> TRUE, isAuthenticated |-> FALSE, user |-> Null, error |-> Null]
      [] action.type = "INITIALIZED" ->
           IF action.user # Null
           THEN [isLoading |-> FALSE, isAuthenticated |-> TRUE,
                 user |-> action.user, error |-> Null]
           ELSE [isLoading |-> FALSE, isAuthenticated |-> FALSE,
                 user |-> Null, error |-> Null]
      [] action.type = "LOGIN_STARTED" ->
           [isLoading |-> TRUE, isAuthenticated |-> FALSE, user |-> Null, error |-> Null]
      [] action.type = "LOGIN_COMPLETED" ->
           [isLoading |-> FALSE, isAuthenticated |-> TRUE,
            user |-> action.user, error |-> Null]
      [] action.type = "LOGOUT_COMPLETED" ->
           [isLoading |-> FALSE, isAuthenticated |-> FALSE, user |-> Null, error |-> Null]
      [] action.type = "TOKEN_REFRESHED" ->
           [isLoading |-> FALSE, isAuthenticated |-> TRUE,
            user |-> action.user, error |-> Null]
      [] action.type = "ERROR" ->
           [isLoading |-> FALSE, isAuthenticated |-> FALSE,
            user |-> Null, error |-> action.error]
      [] OTHER -> s

\* The four variants of the AuthState union
Initializing(s) == s = initialAuthState
Unauthenticated(s) ==
    s = [isLoading |-> FALSE, isAuthenticated |-> FALSE, user |-> Null, error |-> Null]
Authenticated(s) ==
    /\ s.isLoading = FALSE /\ s.isAuthenticated = TRUE
    /\ s.user # Null /\ s.error = Null
Errored(s) ==
    /\ s.isLoading = FALSE /\ s.isAuthenticated = FALSE
    /\ s.user = Null /\ s.error # Null

(***************************************************************************)
(* The navigation address (utils/auth-params.ts).                          *)
(***************************************************************************)
\* A hasAuthParams that looks for the code parameter only
hasAuthParamsCodeOnly(a) == "code" \in a
\* A detection that takes any OIDC parameter for a callback
hasAuthParamsAnyOidc(a) == a \cap OIDC_PARAMS # {}

hasAuthParams(a) == "code" \in a \/ "error" \in a
hasAuthError(a) == "error" \in a
\* the values the parameters carry when present
ErrorValue == "access_denied"
ErrorDescription == "User cancelled"
\* authError?.description || authError?.error || 'Authentication failed'
getAuthErrorMessage(a) ==
    IF "error" \notin a THEN "Authentication failed"
    ELSE IF "error_description" \in a THEN ErrorDescription ELSE ErrorValue
\* A cleanup that removes the code parameter only
cleanupAuthParamsCodeOnly(a) == a \ {"code"}
cleanupAuthParams(a) == a \ OIDC_PARAMS

(***************************************************************************)
(* Configuration (validateConfig in utils/user-manager-factory).           *)
(***************************************************************************)
validateConfig(c) ==
    IF c.environmentUrl = "missing" THEN ConfigurationError("environmentUrl is required")
    ELSE IF c.clientId = "missing" THEN ConfigurationError("clientId is required")
    ELSE IF c.redirectUri = "missing" THEN ConfigurationError("redirectUri is required")
    ELSE IF c.environmentUrl = "malformed" THEN ConfigurationError("Invalid environmentUrl")
    ELSE IF c.redirectUri = "malformed" THEN ConfigurationError("Invalid redirectUri URL")
    ELSE IF c.postLogoutRedirectUri = "malformed"
         THEN ConfigurationError("Invalid postLogoutRedirectUri URL")
    ELSE Null

Config(env, client, redirect, postLogout, auto) ==
    [environmentUrl |-> env, clientId |-> client, redirectUri |-> redirect,
     postLogoutRedirectUri |-> postLogout, autoHandleCallback |-> auto]

ValidConfig(auto) == Config("ok", "ok", "ok", "absent", auto)
InvalidConfigs ==
    { Config("ok", "missing", "ok", "absent", TRUE),
      Config("ok", "ok", "malformed", "ok", TRUE),
      Config("ok", "ok", "ok", "malformed", FALSE) }

\* The page loads a run starts from: the options, the address, whether the
\* engine's state store matches the response in the address, and the session
\* persisted by an earlier page load
Scenario(c, a, pending, session) ==
    [config |-> c, address |-> a, pendingResponse |-> pending, engineUser |-> session]
Scenarios ==
    { Scenario(ValidConfig(TRUE), {}, FALSE, session) :
        session \in {Null, OidcUser(1, FALSE), OidcUser(1, TRUE)} }
    \cup { Scenario(ValidConfig(TRUE), {"code", "state"}, pending, Null) :
             pending \in BOOLEAN }
    \cup { Scenario(ValidConfig(auto), {"error", "error_description", "state"}, FALSE, Null) :
             auto \in BOOLEAN }
    \cup { Scenario(ValidConfig(FALSE), {"code", "state"}, TRUE, session) :
             session \in {Null, OidcUser(1, FALSE)} }
    \cup { Scenario(ValidConfig(TRUE), {"code", "state", "session_state", "other"},
                    TRUE, Null) }
    \cup { Scenario(c, {"code", "state"}, TRUE, Null) : c \in InvalidConfigs }

\* The engine can exchange the response in the address for tokens
ExchangeCanSucceed ==
    /\ "code" \in address /\ "state" \in address /\ "error" \notin address
    /\ pendingResponse

\* A call slot: the operation, where it is suspended, who awaits it, its
\* options.forceRefresh, how getUser() settled and the session it gave, its
\* local  oidcUser, the signinSilent() requests it has made, and how its
\* promise settled
idleCall == [op |-> "idle", pc |-> "idle", caller |-> "none", forceRefresh |-> FALSE,
             seen |-> "none", fetched |-> Null, oidcUser |-> Null, renewals |-> 0, result |-> "none",
             value |-> Null, error |-> Null]

\* The component: mounted, its watcher job queued, its refs  processed  and
\* error, and what it has emitted
idleCb == [mounted |-> FALSE, wake |-> FALSE, processed |-> FALSE, error |-> Null,
           emittedSuccess |-> FALSE, emittedError |-> FALSE]

\* nothing is exercised on its own
idleCleanup == [input |-> << >>, search |-> << >>, runs |-> 0, replacedAt |-> << >>,
                after |-> << >>, detected |-> << >>]
idleLogin == [via |-> "none"]
idleMapping == [done |-> FALSE]
idleObserver == [pc |-> 0]
idleGuard == [pc |-> "idle"]
idleToken == [mounted |-> FALSE]
UnitsIdle ==
    /\ cleanup = idleCleanup
    /\ login = idleLogin
    /\ mapping = idleMapping
    /\ observer = idleObserver
    /\ guard = idleGuard
    /\ token = idleToken

Init ==
    /\ \E sc \in Scenarios :
         /\ config = sc.config
         /\ address = sc.address
         /\ pendingResponse = sc.pendingResponse
         /\ engineUser = sc.engineUser
    /\ construction = "pending"
    /\ userManager = "null"
    /\ listeners = FALSE
    /\ pcInit = "new"
    /\ initOutcome = "none"
    /\ state = initialAuthState
    /\ lastDispatch = [type |-> "none", origin |-> "none"]
    /\ nextTok = 1
    /\ used = 0
    /\ calls = [p \in Slots |-> idleCall]
    /\ exchanges = [c \in {"init", "app", "cb"} |-> 0]
    /\ onErrorCalls = << >>
    /\ onRedirectCalls = << >>
    /\ initLog = << >>
    /\ cb = idleCb
    /\ UnitsIdle

(***************************************************************************)
(* Helpers shared by the steps.                                            *)
(***************************************************************************)
\* The session the engine creates on its next successful sign-in or renewal
NewSession == OidcUser(nextTok + 1, FALSE)

\* The ScalekitCallback watcher on authLoading is queued when isLoading changes
Wake(s2) ==
    IF cb.mounted /\ s2.isLoading # state.isLoading THEN [cb EXCEPT !.wake = TRUE] ELSE cb

\* [isAuthenticated, authLoading, user]: the sources of the useAccessToken
\* watcher, whose job is queued while they differ from what it last saw
Watched(s) == << s.isAuthenticated, s.isLoading, s.user >>

\* A queued watcher job, and the continuation of whoever awaits a settled
\* promise, run before the next task
Quiet ==
    /\ ~cb.wake /\ pcInit # "settling" /\ \A p \in Slots : calls[p].pc # "done"
    /\ ~(token.mounted /\ Watched(state) # token.watched)

\* dispatch(action) issued by origin on AuthState s; a step that issues none
Issue(s, action, origin) ==
    /\ state' = dispatch(s, action)
    /\ lastDispatch' = [type |-> action.type, origin |-> origin]
NoDispatch == UNCHANGED << state, lastDispatch >>

\* error instanceof Error ? error : new Error('Initialization failed')
initError(e) == IF InstanceOfError(e) THEN e ELSE PlainError("Initialization failed")

\* A catch block that reports to onError but leaves the AuthState alone
InitCatchWithoutDispatch(s, e, outcome) ==
    /\ state' = s
    /\ lastDispatch' = lastDispatch
    /\ onErrorCalls' = Append(onErrorCalls, initError(e))
    /\ pcInit' = "settling"
    /\ initOutcome' = outcome

\* The catch block of initialize()
InitCatch(s, e, outcome) ==
    /\ Issue(s, Action("ERROR", Null, initError(e)), "initialize")
    /\ onErrorCalls' = Append(onErrorCalls, initError(e))
    /\ pcInit' = "settling"
    /\ initOutcome' = outcome

(***************************************************************************)
(* createScalekitAuth: the synchronous part.  initialize() is an async     *)
(* function called without await: its body runs up to its first await,     *)
(* and a throw inside it rejects the promise it returns, which nobody      *)
(* holds.                                                                  *)
(***************************************************************************)
createScalekitAuth ==
    /\ construction = "pending"
    /\ construction' = "returned"
    /\ IF validateConfig(config) # Null
       THEN \* createUserManager throws inside initialize(): the promise rejects
            /\ pcInit' = "settling" /\ initOutcome' = "rejected"
            /\ UNCHANGED << userManager, listeners, exchanges >>
       ELSE /\ userManager' = "created"
            /\ listeners' = TRUE
            /\ IF config.autoHandleCallback /\ hasAuthParams(address)
               THEN /\ pcInit' = "exchange"
                    /\ exchanges' = [exchanges EXCEPT !["init"] = @ + 1]
               ELSE /\ pcInit' = "getUser"
                    /\ UNCHANGED exchanges
            /\ UNCHANGED initOutcome
    /\ UNCHANGED << config, address, state, lastDispatch, engineUser, pendingResponse, nextTok, used,
                    calls, onErrorCalls, onRedirectCalls, initLog, cb, units >>

\* await handleRedirectCallback() inside initialize(): signinRedirectCallback resolves
InitExchangeResolves ==
    /\ pcInit = "exchange" /\ Quiet
    /\ ExchangeCanSucceed
    /\ LET oidcUser == NewSession
           scalekitUser == mapOidcUserToScalekitUser(oidcUser)
           loaded == dispatch(state, Action("TOKEN_REFRESHED", scalekitUser, Null))
           completed == dispatch(loaded, Action("LOGIN_COMPLETED", scalekitUser, Null))
       IN /\ engineUser' = oidcUser
          /\ nextTok' = nextTok + 1
          /\ pendingResponse' = FALSE
          /\ address' = cleanupAuthParams(address)
          /\ onRedirectCalls' =
                 Append(onRedirectCalls, [user |-> scalekitUser, appState |-> Null,
                                          state |-> completed])
          /\ \/ \* onRedirectCallback returns
                /\ state' = completed
                /\ lastDispatch' = [type |-> "LOGIN_COMPLETED",
                                    origin |-> "handleRedirectCallback"]
                /\ pcInit' = "settling" /\ initOutcome' = "done_callback"
                /\ initLog' = initLog \o << "LOGIN_COMPLETED" >>
                /\ UNCHANGED onErrorCalls
             \/ \* onRedirectCallback throws
                /\ \E e \in CallbackThrown : InitCatch(completed, e, "failed_onRedirect")
                /\ initLog' = initLog \o << "LOGIN_COMPLETED", "ERROR" >>
    /\ cb' = Wake(state')
    /\ UNCHANGED << used, config, construction, userManager, listeners, calls, exchanges, units >>

\* A failed exchange after which onRedirectCallback is invoked all the same
InitExchangeRejectsThenCallsBack ==
    /\ pcInit = "exchange" /\ Quiet
    /\ \E e \in EngineThrown :
         LET callbackError ==
                 CallbackError("Failed to process authentication callback", CauseOf(e))
             failed == dispatch(state, Action("ERROR", Null, callbackError))
         IN /\ InitCatch(failed, callbackError, "failed_callback")
            /\ onRedirectCalls' = Append(onRedirectCalls, [user |-> Null, state |-> failed])
    /\ initLog' = initLog \o << "ERROR", "ERROR" >>
    /\ cb' = Wake(state')
    /\ UNCHANGED << used, config, address, construction, userManager, listeners,
                    engineUser, pendingResponse, nextTok, calls, exchanges, units >>

\* await handleRedirectCallback() inside initialize(): signinRedirectCallback rejects
InitExchangeRejects ==
    /\ pcInit = "exchange" /\ Quiet
    /\ \E e \in EngineThrown :
         LET callbackError ==
                 CallbackError("Failed to process authentication callback", CauseOf(e))
             failed == dispatch(state, Action("ERROR", Null, callbackError))
         IN InitCatch(failed, callbackError, "failed_callback")
    /\ initLog' = initLog \o << "ERROR", "ERROR" >>
    /\ cb' = Wake(state')
    /\ UNCHANGED << used, config, address, construction, userManager, listeners,
                    engineUser, pendingResponse, nextTok, calls, exchanges,
                    onRedirectCalls, units >>

\* A rehydration that does not look at  oidcUser.expired
InitGetUserResolvesIgnoringExpiry ==
    /\ pcInit = "getUser" /\ Quiet
    /\ LET oidcUser == engineUser
       IN IF oidcUser # Null
          THEN Issue(state, Action("INITIALIZED", mapOidcUserToScalekitUser(oidcUser),
                                   Null), "initialize")
          ELSE Issue(state, Action("INITIALIZED", Null, Null), "initialize")
    /\ pcInit' = "settling" /\ initOutcome' = "done_rehydrate"
    /\ initLog' = Append(initLog, "INITIALIZED")
    /\ cb' = Wake(state')
    /\ UNCHANGED << used, config, address, construction, userManager, listeners,
                    engineUser, pendingResponse, nextTok, calls, exchanges, onErrorCalls,
                    onRedirectCalls, units >>

\* await userManager.getUser() inside initialize() resolves
InitGetUserResolves ==
    /\ pcInit = "getUser" /\ Quiet
    /\ LET oidcUser == engineUser
       IN IF oidcUser # Null /\ ~oidcUser.expired
          THEN Issue(state, Action("INITIALIZED", mapOidcUserToScalekitUser(oidcUser),
                                   Null), "initialize")
          ELSE Issue(state, Action("INITIALIZED", Null, Null), "initialize")
    /\ pcInit' = "settling" /\ initOutcome' = "done_rehydrate"
    /\ initLog' = Append(initLog, "INITIALIZED")
    /\ cb' = Wake(state')
    /\ UNCHANGED << used, config, address, construction, userManager, listeners,
                    engineUser, pendingResponse, nextTok, calls, exchanges, onErrorCalls,
                    onRedirectCalls, units >>

\* The promise of initialize() settles; nobody holds it
InitializeSettles ==
    /\ pcInit = "settling"
    /\ pcInit' = "settled"
    /\ UNCHANGED << config, address, construction, userManager, listeners, initOutcome,
                    used, state, lastDispatch, engineUser, pendingResponse, nextTok, calls, exchanges,
                    onErrorCalls, onRedirectCalls, initLog, cb, units >>

\* await userManager.getUser() inside initialize() rejects
InitGetUserRejects ==
    /\ pcInit = "getUser" /\ Quiet
    /\ \E e \in EngineThrown : InitCatch(state, e, "failed_lookup")
    /\ initLog' = Append(initLog, "ERROR")
    /\ cb' = Wake(state')
    /\ UNCHANGED << used, config, address, construction, userManager, listeners,
                    engineUser, pendingResponse, nextTok, calls, exchanges,
                    onRedirectCalls, units >>

(***************************************************************************)
(* The public operations.  A call occupies a slot from its invocation      *)
(* until the application has taken its result (Return).                    *)
(***************************************************************************)
TokenValue(n) == [token |-> n]

Started(op, pc, caller) == [idleCall EXCEPT !.op = op, !.pc = pc, !.caller = caller]
Resolved(c, v) == [c EXCEPT !.pc = "done", !.result = "value", !.value = v]
Rejected(c, e) == [c EXCEPT !.pc = "done", !.result = "error", !.error = e]

\* A new call takes the lowest free slot
Free(p) == calls[p].op = "idle" /\ \A q \in Slots : q < p => calls[q].op # "idle"
Callable == construction = "returned" /\ Quiet /\ used < MaxInputs

\* loginWithRedirect(options) up to  await userManager.signinRedirect(...)
loginWithRedirect(p) ==
    /\ Callable /\ Free(p)
    /\ used' = used + 1
    /\ IF userManager = "null"
       THEN /\ calls' = [calls EXCEPT ![p] =
                   Rejected(Started("loginWithRedirect", "done", "app"),
                            LoginError("UserManager not initialized", "none"))]
            /\ NoDispatch
       ELSE /\ Issue(state, Action("LOGIN_STARTED", Null, Null), "loginWithRedirect")
            /\ calls' = [calls EXCEPT ![p] =
                   Started("loginWithRedirect", "signinRedirect", "app")]
    /\ cb' = Wake(state')
    /\ UNCHANGED << config, address, construction, userManager, listeners, pcInit,
                    initOutcome, engineUser, pendingResponse, nextTok, exchanges,
                    onErrorCalls, onRedirectCalls, initLog, units >>

\* signinRedirect settles: the redirect is under way, or the engine failed
SigninRedirectSettles(p) ==
    /\ Quiet /\ calls[p].op = "loginWithRedirect" /\ calls[p].pc = "signinRedirect"
    /\ \/ /\ calls' = [calls EXCEPT ![p] = Resolved(@, Null)]
          /\ NoDispatch
       \/ \E e \in EngineThrown :
            LET loginError == LoginError("Failed to initiate login", CauseOf(e))
            IN /\ Issue(state, Action("ERROR", Null, loginError), "loginWithRedirect")
               /\ calls' = [calls EXCEPT ![p] = Rejected(@, loginError)]
    /\ cb' = Wake(state')
    /\ UNCHANGED << config, address, construction, userManager, listeners, pcInit,
                    initOutcome, used, engineUser, pendingResponse, nextTok, exchanges,
                    onErrorCalls, onRedirectCalls, initLog, units >>

\* A loginWithPopup that opens the popup without dispatching LOGIN_STARTED
loginWithPopupWithoutLoginStarted(p) ==
    /\ Callable /\ Free(p)
    /\ used' = used + 1
    /\ IF userManager = "null"
       THEN calls' = [calls EXCEPT ![p] =
                Rejected(Started("loginWithPopup", "done", "app"),
                         LoginError("UserManager not initialized", "none"))]
       ELSE calls' = [calls EXCEPT ![p] = Started("loginWithPopup", "signinPopup", "app")]
    /\ UNCHANGED << config, address, construction, userManager, listeners, pcInit,
                    initOutcome, state, lastDispatch, engineUser, pendingResponse,
                    nextTok, exchanges, onErrorCalls, onRedirectCalls, initLog, cb, units >>

\* loginWithPopup(options) up to  await userManager.signinPopup(...)
loginWithPopup(p) ==
    /\ Callable /\ Free(p)
    /\ used' = used + 1
    /\ IF userManager = "null"
       THEN /\ calls' = [calls EXCEPT ![p] =
                   Rejected(Started("loginWithPopup", "done", "app"),
                            LoginError("UserManager not initialized", "none"))]
            /\ NoDispatch
       ELSE /\ Issue(state, Action("LOGIN_STARTED", Null, Null), "loginWithPopup")
            /\ calls' = [calls EXCEPT ![p] = Started("loginWithPopup", "signinPopup", "app")]
    /\ cb' = Wake(state')
    /\ UNCHANGED << config, address, construction, userManager, listeners, pcInit,
                    initOutcome, engineUser, pendingResponse, nextTok, exchanges,
                    onErrorCalls, onRedirectCalls, initLog, units >>

\* signinPopup resolves: the engine stores the session and raises user-loaded
SigninPopupResolves(p) ==
    /\ Quiet /\ calls[p].op = "loginWithPopup" /\ calls[p].pc = "signinPopup"
    /\ LET oidcUser == NewSession
           scalekitUser == mapOidcUserToScalekitUser(oidcUser)
           loaded == dispatch(state, Action("TOKEN_REFRESHED", scalekitUser, Null))
       IN /\ engineUser' = oidcUser
          /\ nextTok' = nextTok + 1
          /\ Issue(loaded, Action("LOGIN_COMPLETED", scalekitUser, Null), "loginWithPopup")
          /\ calls' = [calls EXCEPT ![p] = Resolved(@, scalekitUser)]
    /\ cb' = Wake(state')
    /\ UNCHANGED << config, address, construction, userManager, listeners, pcInit,
                    initOutcome, used, pendingResponse, exchanges, onErrorCalls,
                    onRedirectCalls, initLog, units >>

\* signinPopup rejects
SigninPopupRejects(p) ==
    /\ Quiet /\ calls[p].op = "loginWithPopup" /\ calls[p].pc = "signinPopup"
    /\ \E e \in EngineThrown :
         LET loginError == LoginError("Popup login failed", CauseOf(e))
         IN /\ Issue(state, Action("ERROR", Null, loginError), "loginWithPopup")
            /\ calls' = [calls EXCEPT ![p] = Rejected(@, loginError)]
    /\ cb' = Wake(state')
    /\ UNCHANGED << config, address, construction, userManager, listeners, pcInit,
                    initOutcome, used, engineUser, pendingResponse, nextTok, exchanges,
                    onErrorCalls, onRedirectCalls, initLog, units >>

\* logout(options) up to  await userManager.signoutRedirect(...)
logout(p) ==
    /\ Callable /\ Free(p)
    /\ used' = used + 1
    /\ IF userManager = "null"
       THEN calls' = [calls EXCEPT ![p] =
                Rejected(Started("logout", "done", "app"),
                         LogoutError("UserManager not initialized", "none"))]
       ELSE calls' = [calls EXCEPT ![p] = Started("logout", "signoutRedirect", "app")]
    /\ UNCHANGED << config, address, construction, userManager, listeners, pcInit,
                    initOutcome, state, lastDispatch, engineUser, pendingResponse, nextTok, exchanges,
                    onErrorCalls, onRedirectCalls, initLog, cb, units >>

\* A logout that dispatches LOGOUT_COMPLETED itself once signoutRedirect resolves
SignoutRedirectSettlesDispatching(p) ==
    /\ Quiet /\ calls[p].op = "logout" /\ calls[p].pc = "signoutRedirect"
    /\ \/ /\ engineUser' = Null
          /\ Issue(state, Action("LOGOUT_COMPLETED", Null, Null), "logout")
          /\ calls' = [calls EXCEPT ![p] = Resolved(@, Null)]
       \/ \E e \in EngineThrown :
            LET logoutError == LogoutError("Logout failed", CauseOf(e))
            IN /\ Issue(state, Action("ERROR", Null, logoutError), "logout")
               /\ calls' = [calls EXCEPT ![p] = Rejected(@, logoutError)]
               /\ UNCHANGED engineUser
    /\ cb' = Wake(state')
    /\ UNCHANGED << config, address, construction, userManager, listeners, pcInit,
                    initOutcome, used, pendingResponse, nextTok, exchanges, onErrorCalls,
                    onRedirectCalls, initLog, units >>

\* A logout whose catch block dispatches the error but does not rethrow it
SignoutRedirectSettlesSwallowing(p) ==
    /\ Quiet /\ calls[p].op = "logout" /\ calls[p].pc = "signoutRedirect"
    /\ \/ /\ engineUser' = Null
          /\ Issue(state, Action("LOGOUT_COMPLETED", Null, Null), "userUnloaded")
          /\ calls' = [calls EXCEPT ![p] = Resolved(@, Null)]
       \/ \E e \in EngineThrown :
            LET logoutError == LogoutError("Logout failed", CauseOf(e))
            IN /\ Issue(state, Action("ERROR", Null, logoutError), "logout")
               /\ calls' = [calls EXCEPT ![p] = Resolved(@, Null)]
               /\ UNCHANGED engineUser
    /\ cb' = Wake(state')
    /\ UNCHANGED << config, address, construction, userManager, listeners, pcInit,
                    initOutcome, used, pendingResponse, nextTok, exchanges, onErrorCalls,
                    onRedirectCalls, initLog, units >>

\* signoutRedirect settles: the engine removes the session and raises
\* user-unloaded, or it fails
SignoutRedirectSettles(p) ==
    /\ Quiet /\ calls[p].op = "logout" /\ calls[p].pc = "signoutRedirect"
    /\ \/ /\ engineUser' = Null
          /\ Issue(state, Action("LOGOUT_COMPLETED", Null, Null), "userUnloaded")
          /\ calls' = [calls EXCEPT ![p] = Resolved(@, Null)]
       \/ \E e \in EngineThrown :
            LET logoutError == LogoutError("Logout failed", CauseOf(e))
            IN /\ Issue(state, Action("ERROR", Null, logoutError), "logout")
               /\ calls' = [calls EXCEPT ![p] = Rejected(@, logoutError)]
               /\ UNCHANGED engineUser
    /\ cb' = Wake(state')
    /\ UNCHANGED << config, address, construction, userManager, listeners, pcInit,
                    initOutcome, used, pendingResponse, nextTok, exchanges, onErrorCalls,
                    onRedirectCalls, initLog, units >>

\* getAccessToken(options) up to  await userManager.getUser()
getAccessToken(p) ==
    /\ Callable /\ Free(p)
    /\ used' = used + 1
    /\ \E forceRefresh \in BOOLEAN :
         IF userManager = "null"
         THEN calls' = [calls EXCEPT ![p] =
                  Rejected([Started("getAccessToken", "done", "app")
                               EXCEPT !.forceRefresh = forceRefresh, !.seen = "noengine"],
                           NotAuthenticatedError("UserManager not initialized"))]
         ELSE calls' = [calls EXCEPT ![p] =
                  [Started("getAccessToken", "getUser", "app")
                      EXCEPT !.forceRefresh = forceRefresh]]
    /\ UNCHANGED << config, address, construction, userManager, listeners, pcInit,
                    initOutcome, state, lastDispatch, engineUser, pendingResponse, nextTok, exchanges,
                    onErrorCalls, onRedirectCalls, initLog, cb, units >>

\* A catch block that wraps whatever was thrown
getAccessTokenCatchWrapsAll(error) ==
    TokenRefreshError("Failed to get access token", CauseOf(error))

\* The catch block of getAccessToken: error is what was thrown inside the try
getAccessTokenCatch(error) ==
    IF error.name = "NotAuthenticatedError" THEN error
    ELSE TokenRefreshError("Failed to get access token", CauseOf(error))

\* A getAccessToken that renews whenever a session is held
GetUserSettlesAlwaysRenews(p) ==
    /\ Quiet /\ calls[p].op = "getAccessToken" /\ calls[p].pc = "getUser"
    /\ \/ \E e \in EngineThrown :
            calls' = [calls EXCEPT ![p] =
                Rejected([@ EXCEPT !.seen = "rejected"],
                         TokenRefreshError("Failed to get access token", CauseOf(e)))]
       \/ LET oidcUser == engineUser
          IN IF oidcUser = Null
             THEN calls' = [calls EXCEPT ![p] =
                      Rejected([@ EXCEPT !.seen = "nouser"],
                               NotAuthenticatedError("User is not authenticated"))]
             ELSE calls' = [calls EXCEPT ![p] =
                      [@ EXCEPT !.seen = "user", !.fetched = oidcUser,
                                !.oidcUser = oidcUser, !.pc = "signinSilent",
                                !.renewals = @ + 1]]
    /\ UNCHANGED << config, address, construction, userManager, listeners, pcInit,
                    initOutcome, used, state, lastDispatch, engineUser, pendingResponse,
                    nextTok, exchanges, onErrorCalls, onRedirectCalls, initLog, cb, units >>

\* getUser() settles inside getAccessToken, up to the return,  await
\* userManager.signinSilent()  or the throw
GetUserSettles(p) ==
    /\ Quiet /\ calls[p].op = "getAccessToken" /\ calls[p].pc = "getUser"
    /\ \/ \E e \in EngineThrown :
            calls' = [calls EXCEPT ![p] =
                Rejected([@ EXCEPT !.seen = "rejected"], getAccessTokenCatch(e))]
       \/ LET oidcUser == engineUser
          IN IF oidcUser = Null
             THEN calls' = [calls EXCEPT ![p] =
                      Rejected([@ EXCEPT !.seen = "nouser"],
                               getAccessTokenCatch(
                                   NotAuthenticatedError("User is not authenticated")))]
             ELSE IF calls[p].forceRefresh \/ oidcUser.expired
             THEN calls' = [calls EXCEPT ![p] =
                      [@ EXCEPT !.seen = "user", !.fetched = oidcUser,
                                !.oidcUser = oidcUser, !.pc = "signinSilent",
                                !.renewals = @ + 1]]
             ELSE calls' = [calls EXCEPT ![p] =
                      Resolved([@ EXCEPT !.seen = "user", !.fetched = oidcUser,
                                         !.oidcUser = oidcUser],
                               TokenValue(oidcUser.access_token))]
    /\ UNCHANGED << config, address, construction, userManager, listeners, pcInit,
                    initOutcome, used, state, lastDispatch, engineUser, pendingResponse, nextTok,
                    exchanges, onErrorCalls, onRedirectCalls, initLog, cb, units >>

\* A renewal after which the token read before it is returned
RenewalResolvesWithHeldToken(p) ==
    /\ Quiet /\ calls[p].op = "getAccessToken" /\ calls[p].pc = "signinSilent"
    /\ LET oidcUser == NewSession
       IN /\ engineUser' = oidcUser
          /\ nextTok' = nextTok + 1
          /\ Issue(state, Action("TOKEN_REFRESHED", mapOidcUserToScalekitUser(oidcUser),
                                 Null), "userLoaded")
          /\ calls' = [calls EXCEPT ![p] =
                 Resolved([@ EXCEPT !.oidcUser = oidcUser],
                          TokenValue(calls[p].oidcUser.access_token))]
    /\ cb' = Wake(state')
    /\ UNCHANGED << config, address, construction, userManager, listeners, pcInit,
                    initOutcome, used, pendingResponse, exchanges, onErrorCalls,
                    onRedirectCalls, initLog, units >>

\* A renewal shared by every caller that waits for one
RenewalResolvesCoalesced(p) ==
    /\ Quiet /\ calls[p].op = "getAccessToken" /\ calls[p].pc = "signinSilent"
    /\ LET oidcUser == NewSession
       IN /\ engineUser' = oidcUser
          /\ nextTok' = nextTok + 1
          /\ Issue(state, Action("TOKEN_REFRESHED", mapOidcUserToScalekitUser(oidcUser),
                                 Null), "userLoaded")
          /\ calls' = [q \in Slots |->
                 IF calls[q].op = "getAccessToken" /\ calls[q].pc = "signinSilent"
                 THEN [calls[q] EXCEPT !.oidcUser = oidcUser,
                                       !.pc = IF q = p THEN "done" ELSE "getUser",
                                       !.forceRefresh = FALSE,
                                       !.result = IF q = p THEN "value" ELSE @,
                                       !.value = IF q = p
                                                 THEN TokenValue(oidcUser.access_token)
                                                 ELSE @]
                 ELSE calls[q]]
    /\ cb' = Wake(state')
    /\ UNCHANGED << config, address, construction, userManager, listeners, pcInit,
                    initOutcome, used, pendingResponse, exchanges, onErrorCalls,
                    onRedirectCalls, initLog, units >>

\* signinSilent() resolves with a renewed session inside getAccessToken: the
\* engine stores it and raises user-loaded
RenewalResolves(p) ==
    /\ Quiet /\ calls[p].op = "getAccessToken" /\ calls[p].pc = "signinSilent"
    /\ LET oidcUser == NewSession
       IN /\ engineUser' = oidcUser
          /\ nextTok' = nextTok + 1
          /\ Issue(state, Action("TOKEN_REFRESHED", mapOidcUserToScalekitUser(oidcUser),
                                 Null), "userLoaded")
          /\ calls' = [calls EXCEPT ![p] =
                 Resolved([@ EXCEPT !.oidcUser = oidcUser],
                          TokenValue(oidcUser.access_token))]
    /\ cb' = Wake(state')
    /\ UNCHANGED << config, address, construction, userManager, listeners, pcInit,
                    initOutcome, used, pendingResponse, exchanges, onErrorCalls,
                    onRedirectCalls, initLog, units >>

\* A failed renewal inside getAccessToken that also dispatches ERROR
RenewalFailsAndDispatches(p) ==
    /\ Quiet /\ calls[p].op = "getAccessToken" /\ calls[p].pc = "signinSilent"
    /\ \E cause \in {"TokenRefreshError", "Error"} :
         LET refreshError == TokenRefreshError("Failed to get access token", cause)
         IN /\ Issue(state, Action("ERROR", Null, refreshError), "getAccessToken")
            /\ calls' = [calls EXCEPT ![p] =
                   Rejected(IF cause = "Error" THEN @ ELSE [@ EXCEPT !.oidcUser = Null],
                            refreshError)]
    /\ cb' = Wake(state')
    /\ UNCHANGED << config, address, construction, userManager, listeners, pcInit,
                    initOutcome, used, engineUser, pendingResponse, nextTok, exchanges,
                    onErrorCalls, onRedirectCalls, initLog, units >>

\* signinSilent() resolves with null, or rejects, inside getAccessToken
RenewalFails(p) ==
    /\ Quiet /\ calls[p].op = "getAccessToken" /\ calls[p].pc = "signinSilent"
    /\ \/ calls' = [calls EXCEPT ![p] =
              Rejected([@ EXCEPT !.oidcUser = Null],
                       getAccessTokenCatch(
                           TokenRefreshError("Silent refresh returned no user", "none")))]
       \/ \E e \in EngineThrown :
            calls' = [calls EXCEPT ![p] = Rejected(@, getAccessTokenCatch(e))]
    /\ UNCHANGED << config, address, construction, userManager, listeners, pcInit,
                    initOutcome, used, state, lastDispatch, engineUser, pendingResponse, nextTok,
                    exchanges, onErrorCalls, onRedirectCalls, initLog, cb, units >>

\* A refreshToken that throws when there is no engine
refreshTokenThrowingWithoutEngine(p) ==
    /\ Callable /\ Free(p)
    /\ used' = used + 1
    /\ IF userManager = "null"
       THEN calls' = [calls EXCEPT ![p] =
                Rejected(Started("refreshToken", "done", "app"),
                         TokenRefreshError("UserManager not initialized", "none"))]
       ELSE calls' = [calls EXCEPT ![p] =
                [Started("refreshToken", "signinSilent", "app") EXCEPT !.renewals = 1]]
    /\ UNCHANGED << config, address, construction, userManager, listeners, pcInit,
                    initOutcome, state, lastDispatch, engineUser, pendingResponse,
                    nextTok, exchanges, onErrorCalls, onRedirectCalls, initLog, cb, units >>

\* refreshToken() up to  await userManager.signinSilent()
refreshToken(p) ==
    /\ Callable /\ Free(p)
    /\ used' = used + 1
    /\ IF userManager = "null"
       THEN calls' = [calls EXCEPT ![p] =
                Resolved(Started("refreshToken", "done", "app"), Null)]
       ELSE calls' = [calls EXCEPT ![p] =
                [Started("refreshToken", "signinSilent", "app") EXCEPT !.renewals = 1]]
    /\ UNCHANGED << config, address, construction, userManager, listeners, pcInit,
                    initOutcome, state, lastDispatch, engineUser, pendingResponse, nextTok, exchanges,
                    onErrorCalls, onRedirectCalls, initLog, cb, units >>

\* A refreshToken that dispatches the renewed user but resolves with null
RefreshResolvesReturningNull(p) ==
    /\ Quiet /\ calls[p].op = "refreshToken" /\ calls[p].pc = "signinSilent"
    /\ \/ LET oidcUser == NewSession
              scalekitUser == mapOidcUserToScalekitUser(oidcUser)
              loaded == dispatch(state, Action("TOKEN_REFRESHED", scalekitUser, Null))
          IN /\ engineUser' = oidcUser
             /\ nextTok' = nextTok + 1
             /\ Issue(loaded, Action("TOKEN_REFRESHED", scalekitUser, Null), "refreshToken")
             /\ calls' = [calls EXCEPT ![p] = Resolved(@, Null)]
       \/ /\ calls' = [calls EXCEPT ![p] = Resolved(@, Null)]
          /\ UNCHANGED << engineUser, nextTok, state, lastDispatch >>
    /\ cb' = Wake(state')
    /\ UNCHANGED << config, address, construction, userManager, listeners, pcInit,
                    initOutcome, used, pendingResponse, exchanges, onErrorCalls,
                    onRedirectCalls, initLog, units >>

\* signinSilent() resolves inside refreshToken, with a renewed session or null
RefreshResolves(p) ==
    /\ Quiet /\ calls[p].op = "refreshToken" /\ calls[p].pc = "signinSilent"
    /\ \/ LET oidcUser == NewSession
              scalekitUser == mapOidcUserToScalekitUser(oidcUser)
              loaded == dispatch(state, Action("TOKEN_REFRESHED", scalekitUser, Null))
          IN /\ engineUser' = oidcUser
             /\ nextTok' = nextTok + 1
             /\ Issue(loaded, Action("TOKEN_REFRESHED", scalekitUser, Null), "refreshToken")
             /\ calls' = [calls EXCEPT ![p] = Resolved(@, scalekitUser)]
       \/ /\ calls' = [calls EXCEPT ![p] = Resolved(@, Null)]
          /\ UNCHANGED << engineUser, nextTok, state, lastDispatch >>
    /\ cb' = Wake(state')
    /\ UNCHANGED << config, address, construction, userManager, listeners, pcInit,
                    initOutcome, used, pendingResponse, exchanges, onErrorCalls,
                    onRedirectCalls, initLog, units >>

\* signinSilent() rejects inside refreshToken
RefreshRejects(p) ==
    /\ Quiet /\ calls[p].op = "refreshToken" /\ calls[p].pc = "signinSilent"
    /\ \E e \in EngineThrown :
         LET refreshError == TokenRefreshError("Token refresh failed", CauseOf(e))
         IN /\ Issue(state, Action("ERROR", Null, refreshError), "refreshToken")
            /\ calls' = [calls EXCEPT ![p] = Rejected(@, refreshError)]
    /\ cb' = Wake(state')
    /\ UNCHANGED << config, address, construction, userManager, listeners, pcInit,
                    initOutcome, used, engineUser, pendingResponse, nextTok, exchanges,
                    onErrorCalls, onRedirectCalls, initLog, units >>

(***************************************************************************)
(* handleRedirectCallback, called by the application or by the             *)
(* ScalekitCallback component (initialize()'s own call is part of the      *)
(* InitExchange steps).                                                    *)
(***************************************************************************)
\* The call made by  caller  into slot p, up to  await signinRedirectCallback()
HandleRedirectCallbackCall(p, caller) ==
    IF userManager = "null"
    THEN /\ calls' = [calls EXCEPT ![p] =
                Rejected(Started("handleRedirectCallback", "done", caller),
                         CallbackError("UserManager not initialized", "none"))]
         /\ UNCHANGED exchanges
    ELSE /\ exchanges' = [exchanges EXCEPT ![caller] = @ + 1]
         /\ calls' = [calls EXCEPT ![p] =
                Started("handleRedirectCallback", "signinRedirectCallback", caller)]

handleRedirectCallback(p) ==
    /\ Callable /\ Free(p)
    /\ used' = used + 1
    /\ HandleRedirectCallbackCall(p, "app")
    /\ UNCHANGED << config, address, construction, userManager, listeners, pcInit,
                    initOutcome, state, lastDispatch, engineUser, pendingResponse, nextTok, onErrorCalls,
                    onRedirectCalls, initLog, cb, units >>

\* The component's continuation after  await handleRedirectCallback()
CallbackSucceeded(c) == [c EXCEPT !.processed = TRUE, !.emittedSuccess = TRUE]
CallbackFailed(c, callbackError) ==
    [c EXCEPT !.error = callbackError, !.processed = TRUE, !.emittedError = TRUE]

\* signinRedirectCallback() resolves: the engine stores the session and raises
\* user-loaded; LOGIN_COMPLETED, cleanupAuthParams(), return
ExchangeResolves(p) ==
    /\ Quiet
    /\ calls[p].op = "handleRedirectCallback" /\ calls[p].pc = "signinRedirectCallback"
    /\ ExchangeCanSucceed
    /\ LET oidcUser == NewSession
           scalekitUser == mapOidcUserToScalekitUser(oidcUser)
           loaded == dispatch(state, Action("TOKEN_REFRESHED", scalekitUser, Null))
       IN /\ engineUser' = oidcUser
          /\ nextTok' = nextTok + 1
          /\ pendingResponse' = FALSE
          /\ Issue(loaded, Action("LOGIN_COMPLETED", scalekitUser, Null), "handleRedirectCallback")
          /\ address' = cleanupAuthParams(address)
          /\ calls' = [calls EXCEPT ![p] = Resolved(@, scalekitUser)]
    /\ cb' = IF calls[p].caller = "cb" THEN CallbackSucceeded(Wake(state'))
             ELSE Wake(state')
    /\ UNCHANGED << config, construction, userManager, listeners, pcInit, initOutcome,
                    used, exchanges, onErrorCalls, onRedirectCalls, initLog, units >>

\* signinRedirectCallback() rejects
ExchangeRejects(p) ==
    /\ Quiet
    /\ calls[p].op = "handleRedirectCallback" /\ calls[p].pc = "signinRedirectCallback"
    /\ \E e \in EngineThrown :
         LET callbackError ==
                 CallbackError("Failed to process authentication callback", CauseOf(e))
         IN /\ Issue(state, Action("ERROR", Null, callbackError), "handleRedirectCallback")
            /\ calls' = [calls EXCEPT ![p] = Rejected(@, callbackError)]
            /\ cb' = IF calls[p].caller = "cb"
                     THEN CallbackFailed(Wake(state'), callbackError)
                     ELSE Wake(state')
    /\ UNCHANGED << config, address, construction, userManager, listeners, pcInit,
                    initOutcome, used, engineUser, pendingResponse, nextTok, exchanges,
                    onErrorCalls, onRedirectCalls, initLog, units >>

\* The application takes the settled result of a call
Return(p) ==
    /\ calls[p].pc = "done" /\ calls[p].caller \in {"app", "cb"}
    /\ calls' = [calls EXCEPT ![p] = idleCall]
    /\ UNCHANGED << config, address, construction, userManager, listeners, pcInit,
                    initOutcome, used, state, lastDispatch, engineUser, pendingResponse, nextTok,
                    exchanges, onErrorCalls, onRedirectCalls, initLog, cb, units >>

(***************************************************************************)
(* The ScalekitCallback component.                                         *)
(***************************************************************************)
\* The watcher callback on authLoading, run on component c
\*   if (!authLoading.value && !processed.value) processCallback()
WatchCallback(c) ==
    IF state.isLoading \/ c.processed
    THEN cb' = c /\ UNCHANGED << calls, exchanges >>
    ELSE IF hasAuthError(address)
    THEN /\ cb' = CallbackFailed(c, CallbackError(getAuthErrorMessage(address), "none"))
         /\ UNCHANGED << calls, exchanges >>
    ELSE IF ~hasAuthParams(address)
    THEN /\ cb' = CallbackFailed(c,
                      CallbackError("No authentication parameters found in URL. This page should only be accessed after authentication redirect.",
                                    "none"))
         /\ UNCHANGED << calls, exchanges >>
    ELSE /\ cb' = c
         /\ \E p \in Slots :
              /\ Free(p)
              /\ HandleRedirectCallbackCall(p, "cb")

\* The component is set up: watch(..., { immediate: true }) runs the callback
Mount ==
    /\ construction = "returned" /\ ~cb.mounted
    /\ WatchCallback([cb EXCEPT !.mounted = TRUE])
    /\ UNCHANGED << config, address, construction, userManager, listeners, pcInit,
                    initOutcome, used, state, lastDispatch, engineUser, pendingResponse, nextTok,
                    onErrorCalls, onRedirectCalls, initLog, units >>

\* The queued watcher job runs
WatcherRuns ==
    /\ cb.wake
    /\ WatchCallback([cb EXCEPT !.wake = FALSE])
    /\ UNCHANGED << config, address, construction, userManager, listeners, pcInit,
                    initOutcome, used, state, lastDispatch, engineUser, pendingResponse, nextTok,
                    onErrorCalls, onRedirectCalls, initLog, units >>

(***************************************************************************)
(* The engine's notifications (the listeners registered by initialize()).  *)
(***************************************************************************)
\* A user-loaded listener that stays silent while the state is loading
UserLoadedUnlessLoading ==
    /\ listeners /\ Quiet /\ used < MaxInputs
    /\ used' = used + 1
    /\ engineUser # Null
    /\ engineUser' = NewSession
    /\ nextTok' = nextTok + 1
    /\ IF state.isLoading
       THEN NoDispatch
       ELSE Issue(state, Action("TOKEN_REFRESHED",
                                mapOidcUserToScalekitUser(engineUser'), Null), "userLoaded")
    /\ cb' = Wake(state')
    /\ UNCHANGED << config, address, construction, userManager, listeners, pcInit,
                    initOutcome, pendingResponse, calls, exchanges, onErrorCalls,
                    onRedirectCalls, initLog, units >>

\* user loaded: the engine renewed the session on its own timer
UserLoaded ==
    /\ listeners /\ Quiet /\ used < MaxInputs
    /\ used' = used + 1
    /\ engineUser # Null
    /\ engineUser' = NewSession
    /\ nextTok' = nextTok + 1
    /\ Issue(state, Action("TOKEN_REFRESHED",
                                       mapOidcUserToScalekitUser(engineUser'), Null), "userLoaded")
    /\ cb' = Wake(state')
    /\ UNCHANGED << config, address, construction, userManager, listeners, pcInit,
                    initOutcome, pendingResponse, calls, exchanges, onErrorCalls,
                    onRedirectCalls, initLog, units >>

\* A user-unloaded listener that does nothing
UserUnloadedIgnored ==
    /\ listeners /\ Quiet /\ used < MaxInputs
    /\ used' = used + 1
    /\ engineUser # Null
    /\ engineUser' = Null
    /\ NoDispatch
    /\ cb' = Wake(state')
    /\ UNCHANGED << config, address, construction, userManager, listeners, pcInit,
                    initOutcome, pendingResponse, nextTok, calls, exchanges, onErrorCalls,
                    onRedirectCalls, initLog, units >>

\* user unloaded: the engine dropped the session
UserUnloaded ==
    /\ listeners /\ Quiet /\ used < MaxInputs
    /\ used' = used + 1
    /\ engineUser # Null
    /\ engineUser' = Null
    /\ Issue(state, Action("LOGOUT_COMPLETED", Null, Null), "userUnloaded")
    /\ cb' = Wake(state')
    /\ UNCHANGED << config, address, construction, userManager, listeners, pcInit,
                    initOutcome, pendingResponse, nextTok, calls, exchanges, onErrorCalls,
                    onRedirectCalls, initLog, units >>

\* A silent-renew-failed listener that dispatches but does not report
SilentRenewErrorUnreported ==
    /\ listeners /\ Quiet /\ used < MaxInputs
    /\ used' = used + 1
    /\ engineUser # Null
    /\ LET refreshError == TokenRefreshError("Silent token renewal failed", "Error")
       IN Issue(state, Action("ERROR", Null, refreshError), "silentRenewError")
    /\ cb' = Wake(state')
    /\ UNCHANGED << config, address, construction, userManager, listeners, pcInit,
                    initOutcome, engineUser, pendingResponse, nextTok, calls, exchanges,
                    onErrorCalls, onRedirectCalls, initLog, units >>

\* silent-renew failed (the listener's argument is an Error)
SilentRenewError ==
    /\ listeners /\ Quiet /\ used < MaxInputs
    /\ used' = used + 1
    /\ engineUser # Null
    /\ LET refreshError == TokenRefreshError("Silent token renewal failed", "Error")
       IN /\ Issue(state, Action("ERROR", Null, refreshError), "silentRenewError")
          /\ onErrorCalls' = Append(onErrorCalls, refreshError)
    /\ cb' = Wake(state')
    /\ UNCHANGED << config, address, construction, userManager, listeners, pcInit,
                    initOutcome, engineUser, pendingResponse, nextTok, calls, exchanges,
                    onRedirectCalls, initLog, units >>

\* An access-token-expired listener that leaves an Errored state alone
AccessTokenExpiredKeepingError ==
    /\ listeners /\ Quiet /\ used < MaxInputs
    /\ used' = used + 1
    /\ engineUser # Null /\ ~engineUser.expired
    /\ engineUser' = [engineUser EXCEPT !.expired = TRUE]
    /\ IF state.error # Null
       THEN NoDispatch
       ELSE Issue(state, Action("LOGOUT_COMPLETED", Null, Null), "accessTokenExpired")
    /\ cb' = Wake(state')
    /\ UNCHANGED << config, address, construction, userManager, listeners, pcInit,
                    initOutcome, pendingResponse, nextTok, calls, exchanges, onErrorCalls,
                    onRedirectCalls, initLog, units >>

\* access token expired: the session's expiry instant has passed
AccessTokenExpired ==
    /\ listeners /\ Quiet /\ used < MaxInputs
    /\ used' = used + 1
    /\ engineUser # Null /\ ~engineUser.expired
    /\ engineUser' = [engineUser EXCEPT !.expired = TRUE]
    /\ Issue(state, Action("LOGOUT_COMPLETED", Null, Null), "accessTokenExpired")
    /\ cb' = Wake(state')
    /\ UNCHANGED << config, address, construction, userManager, listeners, pcInit,
                    initOutcome, pendingResponse, nextTok, calls, exchanges, onErrorCalls,
                    onRedirectCalls, initLog, units >>

(***************************************************************************)
(* Parts exercised on their own.  The controller is not built in these     *)
(* runs: its variables stay as they are before createScalekitAuth.         *)
(***************************************************************************)
Unbuilt ==
    /\ config = ValidConfig(TRUE)
    /\ address = {}
    /\ pendingResponse = FALSE
    /\ engineUser = Null
    /\ construction = "pending"
    /\ userManager = "null"
    /\ listeners = FALSE
    /\ pcInit = "new"
    /\ initOutcome = "none"
    /\ lastDispatch = [type |-> "none", origin |-> "none"]
    /\ nextTok = 1
    /\ used = 0
    /\ calls = [p \in Slots |-> idleCall]
    /\ exchanges = [c \in {"init", "app", "cb"} |-> 0]
    /\ onErrorCalls = << >>
    /\ onRedirectCalls = << >>
    /\ initLog = << >>
    /\ cb = idleCb

(***************************************************************************)
(* cleanupAuthParams() on a query string.  The string is the sequence of   *)
(* its parameter names, so a name may occur more than once.                *)
(***************************************************************************)
\* longest query string tried
MaxParams == 3

ParamNames == OIDC_PARAMS \cup {"page"}
SearchStrings == UNION {[1..n -> ParamNames] : n \in 0..MaxParams}

\* URLSearchParams.has / URLSearchParams.delete
searchParamsHas(search, param) == \E i \in DOMAIN search : search[i] = param
\* A delete that removes only the first occurrence of the name
searchParamsDeleteFirst(search, param) ==
    LET first == CHOOSE i \in DOMAIN search :
                     /\ search[i] = param
                     /\ \A j \in 1..(i - 1) : search[j] # param
    IN SubSeq(search, 1, first - 1) \o SubSeq(search, first + 1, Len(search))

searchParamsDelete(search, param) == SelectSeq(search, LAMBDA name : name # param)

\* A list that leaves session_state out
paramsToRemoveFour == << "code", "state", "error", "error_description" >>

paramsToRemove == << "code", "state", "error", "error_description", "session_state" >>

\* paramsToRemove.forEach(...) from the i-th name on; acc is url.searchParams
\* and the local hasParams
RECURSIVE removeParams(_, _)
removeParams(i, acc) ==
    IF i > Len(paramsToRemove) THEN acc
    ELSE removeParams(i + 1,
             IF searchParamsHas(acc.search, paramsToRemove[i])
             THEN [search |-> searchParamsDelete(acc.search, paramsToRemove[i]),
                   hasParams |-> TRUE]
             ELSE acc)

\* cleanupAuthParams() in a browser: window.location changes only through
\* history.replaceState, which is called only when hasParams
CleanupRuns ==
    /\ cleanup.runs < 2
    /\ LET url == removeParams(1, [search |-> cleanup.search, hasParams |-> FALSE])
           location == IF url.hasParams THEN url.search ELSE cleanup.search
       IN cleanup' = [cleanup EXCEPT
              !.search = location,
              !.runs = @ + 1,
              !.replacedAt = IF url.hasParams THEN Append(@, cleanup.runs + 1) ELSE @,
              !.after = Append(@, location)]
    /\ UNCHANGED << controller, state, login, mapping, observer, guard, token >>

CleanupInit ==
    /\ Unbuilt /\ state = initialAuthState
    /\ \E search \in SearchStrings :
          cleanup = [idleCleanup EXCEPT !.input = search, !.search = search]
    /\ login = idleLogin /\ mapping = idleMapping
    /\ observer = idleObserver /\ guard = idleGuard
    /\ token = idleToken

CleanupNext == CleanupRuns

CleanupSpec == CleanupInit /\ [][CleanupNext]_vars

\* the names new URLSearchParams(window.location.search) answers has() for
searchParamNames(search) == {search[i] : i \in DOMAIN search}

\* hasAuthParams() on the query string of the page
Detects ==
    /\ cleanup.detected = << >>
    /\ cleanup' = [cleanup EXCEPT
           !.detected = << hasAuthParams(searchParamNames(cleanup.search)) >>]
    /\ UNCHANGED << controller, state, login, mapping, observer, guard, token >>

DetectNext == Detects

DetectSpec == CleanupInit /\ [][DetectNext]_vars

(***************************************************************************)
(* The parameters the two login operations hand to the engine.  A          *)
(* JavaScript object is a function on the property names it has.           *)
(***************************************************************************)
\* most keys in the caller's extraQueryParams
MaxExtra == 2

SCALEKIT_PARAMS == [ORGANIZATION_ID |-> "organization_id",
                    CONNECTION_ID |-> "connection_id",
                    LOGIN_HINT |-> "login_hint"]

\* {} and Object.assign(target, source)
EmptyObject == [k \in {} |-> ""]
\* An assign in which the properties of the target are kept
ObjectAssignKeepingTarget(target, source) ==
    [k \in DOMAIN target \cup DOMAIN source |->
        IF k \in DOMAIN target THEN target[k] ELSE source[k]]

ObjectAssign(target, source) ==
    [k \in DOMAIN target \cup DOMAIN source |->
        IF k \in DOMAIN source THEN source[k] ELSE target[k]]

\* if (options.name): the property is there and is not the empty string
Truthy(options, name) == name \in DOMAIN options /\ options[name] # ""

\* buildScalekitParams(options)
buildScalekitParams(options) ==
    LET p0 == EmptyObject
        p1 == IF Truthy(options, "organizationId")
              THEN ObjectAssign(p0, [k \in {SCALEKIT_PARAMS.ORGANIZATION_ID} |->
                                        options["organizationId"]])
              ELSE p0
        p2 == IF Truthy(options, "connectionId")
              THEN ObjectAssign(p1, [k \in {SCALEKIT_PARAMS.CONNECTION_ID} |->
                                        options["connectionId"]])
              ELSE p1
        p3 == IF Truthy(options, "loginHint")
              THEN ObjectAssign(p2, [k \in {SCALEKIT_PARAMS.LOGIN_HINT} |->
                                        options["loginHint"]])
              ELSE p2
    IN IF "extraQueryParams" \in DOMAIN options
       THEN ObjectAssign(p3, options["extraQueryParams"])
       ELSE p3

\* extraQueryParams: Object.keys(extraQueryParams).length > 0 ? extraQueryParams
\* : undefined, as a property of the engine call's argument
extraQueryParamsArg(options) ==
    LET extraQueryParams == buildScalekitParams(options)
    IN IF DOMAIN extraQueryParams # {}
       THEN [k \in {"extraQueryParams"} |-> extraQueryParams]
       ELSE EmptyObject

\* state: options.returnTo ? { returnTo: options.returnTo } : undefined, as a
\* property of the engine call's argument
stateArg(options) ==
    IF Truthy(options, "returnTo")
    THEN [k \in {"state"} |-> [returnTo |-> options["returnTo"]]]
    ELSE EmptyObject

\* the argument of userManager.signinRedirect
signinRedirectArgs(options) ==
    ObjectAssign(stateArg(options), extraQueryParamsArg(options))

\* the options tried: each routing option absent, empty or given, and the
\* caller's own parameters absent or on up to MaxExtra keys
RoutingOptions ==
    UNION {[names -> {"", "given"}] :
               names \in SUBSET {"organizationId", "connectionId", "loginHint"}}
ExtraQueryParams ==
    UNION {[keys -> {"", "caller"}] :
               keys \in {ks \in SUBSET {"organization_id", "connection_id",
                                        "login_hint", "prompt"} :
                             Cardinality(ks) <= MaxExtra}}
LoginOptions ==
    RoutingOptions \cup
    {ObjectAssign(o, [k \in {"extraQueryParams"} |-> e]) :
         o \in RoutingOptions, e \in ExtraQueryParams}

\* a controller whose initialize() has ended without a session
Built ==
    /\ config = ValidConfig(TRUE)
    /\ address = {}
    /\ pendingResponse = FALSE
    /\ engineUser = Null
    /\ construction = "returned"
    /\ userManager = "created"
    /\ listeners = TRUE
    /\ pcInit = "settled"
    /\ initOutcome = "done_rehydrate"
    /\ lastDispatch = [type |-> "INITIALIZED", origin |-> "initialize"]
    /\ nextTok = 1
    /\ used = 0
    /\ calls = [p \in Slots |-> idleCall]
    /\ exchanges = [c \in {"init", "app", "cb"} |-> 0]
    /\ onErrorCalls = << >>
    /\ onRedirectCalls = << >>
    /\ initLog = << "INITIALIZED" >>
    /\ cb = idleCb

\* loginWithRedirect(options) up to the call of userManager.signinRedirect
LoginWithRedirectSends ==
    /\ login.via = "none" /\ userManager # "null"
    /\ Issue(state, Action("LOGIN_STARTED", Null, Null), "loginWithRedirect")
    /\ login' = [login EXCEPT !.via = "signinRedirect",
                              !.args = signinRedirectArgs(login.options)]
    /\ UNCHANGED << config, address, construction, userManager, listeners, pcInit,
                    initOutcome, engineUser, pendingResponse, nextTok, used, calls,
                    exchanges, onErrorCalls, onRedirectCalls, initLog, cb,
                    cleanup, mapping, observer, guard, token >>

\* loginWithPopup(options) up to the call of userManager.signinPopup
LoginWithPopupSends ==
    /\ login.via = "none" /\ userManager # "null"
    /\ Issue(state, Action("LOGIN_STARTED", Null, Null), "loginWithPopup")
    /\ login' = [login EXCEPT !.via = "signinPopup",
                              !.args = extraQueryParamsArg(login.options)]
    /\ UNCHANGED << config, address, construction, userManager, listeners, pcInit,
                    initOutcome, engineUser, pendingResponse, nextTok, used, calls,
                    exchanges, onErrorCalls, onRedirectCalls, initLog, cb,
                    cleanup, mapping, observer, guard, token >>

LoginInit ==
    /\ Built /\ state = dispatch(initialAuthState, Action("INITIALIZED", Null, Null))
    /\ \E options \in LoginOptions :
          login = [via |-> "none", options |-> options, args |-> EmptyObject]
    /\ cleanup = idleCleanup /\ mapping = idleMapping
    /\ observer = idleObserver /\ guard = idleGuard
    /\ token = idleToken

LoginNext == LoginWithRedirectSends \/ LoginWithPopupSends

LoginSpec == LoginInit /\ [][LoginNext]_vars

(***************************************************************************)
(* The round trip of loginWithRedirect: the browser leaves for the         *)
(* identity provider and comes back on the redirect address, where a new   *)
(* page load constructs the controller again and initialize() handles the  *)
(* response.  The engine keeps the state of the request in its store and   *)
(* hands it back as the state of the user it resolves with.                *)
(***************************************************************************)
ReturnToValues == {"", "/dashboard", "/settings"}
ReturnToOptions ==
    RoutingOptions \cup
    {ObjectAssign(o, [k \in {"returnTo"} |-> r]) :
         o \in RoutingOptions, r \in ReturnToValues}

\* the page the engine navigated away from is gone; the redirect address is
\* loaded with the response in it
RedirectReturns ==
    /\ login.via = "signinRedirect"
    /\ login' = [login EXCEPT !.via = "returned",
                              !.userState = IF "state" \in DOMAIN login.args
                                            THEN login.args["state"] ELSE Null]
    /\ config' = ValidConfig(TRUE)
    /\ address' = {"code", "state"}
    /\ pendingResponse' = TRUE
    /\ engineUser' = Null
    /\ construction' = "pending"
    /\ userManager' = "null"
    /\ listeners' = FALSE
    /\ pcInit' = "new"
    /\ initOutcome' = "none"
    /\ state' = initialAuthState
    /\ lastDispatch' = [type |-> "none", origin |-> "none"]
    /\ initLog' = << >>
    /\ UNCHANGED << nextTok, used, calls, exchanges, onErrorCalls, onRedirectCalls, cb,
                    cleanup, mapping, observer, guard, token >>

RoundTripInit ==
    /\ Built /\ state = dispatch(initialAuthState, Action("INITIALIZED", Null, Null))
    /\ \E options \in ReturnToOptions :
          login = [via |-> "none", options |-> options, args |-> EmptyObject,
                   userState |-> Null]
    /\ cleanup = idleCleanup /\ mapping = idleMapping
    /\ observer = idleObserver /\ guard = idleGuard
    /\ token = idleToken

RoundTripNext ==
    \/ LoginWithRedirectSends
    \/ RedirectReturns
    \/ createScalekitAuth
    \/ InitExchangeResolves
    \/ InitExchangeRejects
    \/ InitializeSettles

RoundTripSpec == RoundTripInit /\ [][RoundTripNext]_vars

(***************************************************************************)
(* The scopes of the Session User.  A string is the sequence of its        *)
(* characters.                                                             *)
(***************************************************************************)
\* longest scope string tried
MaxScopeLen == 4

ScopeChars == {"o", "p", " "}
ScopeStrings == UNION {[1..n -> ScopeChars] : n \in 0..MaxScopeLen}

\* str.split(separator) for a one-character separator, from position i on:
\* piece is the substring collected since the last separator
RECURSIVE splitFrom(_, _, _, _, _)
splitFrom(str, separator, i, piece, pieces) ==
    IF i > Len(str) THEN Append(pieces, piece)
    ELSE IF str[i] = separator
         THEN splitFrom(str, separator, i + 1, << >>, Append(pieces, piece))
         ELSE splitFrom(str, separator, i + 1, Append(piece, str[i]), pieces)
split(str, separator) == splitFrom(str, separator, 1, << >>, << >>)

\* scopes: oidcUser.scope?.split(' ') || []   (an array is never falsy)
scopesOf(oidcUser) ==
    IF "scope" \in DOMAIN oidcUser THEN split(oidcUser["scope"], " ") ELSE << >>

\* the sessions tried: scope absent, or any string
ScopedSessions ==
    {EmptyObject} \cup {[k \in {"scope"} |-> str] : str \in ScopeStrings}

\* mapOidcUserToScalekitUser(oidcUser), its scopes
MapsScopes ==
    /\ ~mapping.done
    /\ mapping' = [mapping EXCEPT !.done = TRUE, !.scopes = scopesOf(mapping.oidcUser)]
    /\ UNCHANGED << controller, state, cleanup, login, observer, guard, token >>

MappingInit ==
    /\ Unbuilt /\ state = initialAuthState
    /\ \E oidcUser \in ScopedSessions :
          mapping = [done |-> FALSE, oidcUser |-> oidcUser, scopes |-> << >>]
    /\ cleanup = idleCleanup /\ login = idleLogin
    /\ observer = idleObserver /\ guard = idleGuard
    /\ token = idleToken

MappingNext == MapsScopes

MappingSpec == MappingInit /\ [][MappingNext]_vars

(***************************************************************************)
(* dispatch seen from inside: the reactive object is assigned field by     *)
(* field, and a subscriber with a synchronous flush runs at every          *)
(* assignment that changes a value.                                        *)
(***************************************************************************)
\* the assignments of dispatch(action), in the order of the source
assignments(action) ==
    CASE action.type \in {"INITIALIZING", "LOGIN_STARTED"} ->
           << << "isLoading", TRUE >>, << "isAuthenticated", FALSE >>,
              << "user", Null >>, << "error", Null >> >>
      [] action.type = "INITIALIZED" ->
           IF action.user # Null
           THEN << << "isLoading", FALSE >>, << "isAuthenticated", TRUE >>,
                   << "user", action.user >>, << "error", Null >> >>
           ELSE << << "isLoading", FALSE >>, << "isAuthenticated", FALSE >>,
                   << "user", Null >>, << "error", Null >> >>
      [] action.type \in {"LOGIN_COMPLETED", "TOKEN_REFRESHED"} ->
           << << "isLoading", FALSE >>, << "isAuthenticated", TRUE >>,
              << "user", action.user >>, << "error", Null >> >>
      [] action.type = "LOGOUT_COMPLETED" ->
           << << "isLoading", FALSE >>, << "isAuthenticated", FALSE >>,
              << "user", Null >>, << "error", Null >> >>
      [] action.type = "ERROR" ->
           << << "isLoading", FALSE >>, << "isAuthenticated", FALSE >>,
              << "user", Null >>, << "error", action.error >> >>
      [] OTHER -> << >>

\* state.<field> = value on the reactive object
assign(s, field, value) ==
    CASE field = "isLoading" -> [s EXCEPT !.isLoading = value]
      [] field = "isAuthenticated" -> [s EXCEPT !.isAuthenticated = value]
      [] field = "user" -> [s EXCEPT !.user = value]
      [] field = "error" -> [s EXCEPT !.error = value]

\* the AuthStates and the actions tried
SampleUsers == {[accessToken |-> 1], [accessToken |-> 2]}
SampleErrors == {LoginError("Failed to initiate login", "Error"),
                 TokenRefreshError("Silent token renewal failed", "Error")}
SampleStates ==
    {initialAuthState, dispatch(initialAuthState, Action("LOGOUT_COMPLETED", Null, Null))}
    \cup {dispatch(initialAuthState, Action("LOGIN_COMPLETED", u, Null)) : u \in SampleUsers}
    \cup {dispatch(initialAuthState, Action("ERROR", Null, e)) : e \in SampleErrors}
SampleActions ==
    {Action(type, Null, Null) :
         type \in {"INITIALIZING", "INITIALIZED", "LOGIN_STARTED", "LOGOUT_COMPLETED"}}
    \cup {Action(type, u, Null) :
             type \in {"INITIALIZED", "LOGIN_COMPLETED", "TOKEN_REFRESHED"},
             u \in SampleUsers}
    \cup {Action("ERROR", Null, e) : e \in SampleErrors}

\* the next assignment of the running dispatch; the subscriber is triggered
\* when the assigned value differs from the one held
Assigns ==
    /\ observer.pc < Len(assignments(observer.action))
    /\ LET next == assignments(observer.action)[observer.pc + 1]
       IN /\ state' = assign(state, next[1], next[2])
          /\ observer' = [observer EXCEPT
                 !.pc = @ + 1,
                 !.seen = IF state' # state THEN Append(@, state') ELSE @]
    /\ UNCHANGED << controller, cleanup, login, mapping, guard, token >>

ObserverInit ==
    /\ Built
    /\ state \in SampleStates
    /\ \E action \in SampleActions :
          observer = [pc |-> 0, action |-> action, before |-> state, seen |-> << >>]
    /\ cleanup = idleCleanup /\ login = idleLogin
    /\ mapping = idleMapping /\ guard = idleGuard
    /\ token = idleToken

ObserverNext == Assigns

ObserverSpec == ObserverInit /\ [][ObserverNext]_vars

(***************************************************************************)
(* The exported authReducer next to the controller's dispatch.             *)
(***************************************************************************)
\* A reducer whose default case starts over
authReducerDefaultInitial(s, action) ==
    CASE action.type \in {"INITIALIZING", "LOGIN_STARTED"} ->
           [isLoading |-> TRUE, isAuthenticated |-> FALSE, user |-> Null, error |-> Null]
      [] action.type = "INITIALIZED" /\ action.user # Null ->
           [isLoading |-> FALSE, isAuthenticated |-> TRUE,
            user |-> action.user, error |-> Null]
      [] action.type \in {"INITIALIZED", "LOGOUT_COMPLETED"} ->
           [isLoading |-> FALSE, isAuthenticated |-> FALSE, user |-> Null, error |-> Null]
      [] action.type \in {"LOGIN_COMPLETED", "TOKEN_REFRESHED"} ->
           [isLoading |-> FALSE, isAuthenticated |-> TRUE,
            user |-> action.user, error |-> Null]
      [] action.type = "ERROR" ->
           [isLoading |-> FALSE, isAuthenticated |-> FALSE,
            user |-> Null, error |-> action.error]
      [] OTHER -> initialAuthState

\* A reducer in which a login attempt keeps the error of the one before
authReducerKeepingError(s, action) ==
    CASE action.type = "INITIALIZING" ->
           [isLoading |-> TRUE, isAuthenticated |-> FALSE, user |-> Null, error |-> Null]
      [] action.type = "LOGIN_STARTED" ->
           [isLoading |-> TRUE, isAuthenticated |-> FALSE, user |-> Null,
            error |-> s.error]
      [] action.type = "INITIALIZED" /\ action.user # Null ->
           [isLoading |-> FALSE, isAuthenticated |-> TRUE,
            user |-> action.user, error |-> Null]
      [] action.type \in {"INITIALIZED", "LOGOUT_COMPLETED"} ->
           [isLoading |-> FALSE, isAuthenticated |-> FALSE, user |-> Null, error |-> Null]
      [] action.type \in {"LOGIN_COMPLETED", "TOKEN_REFRESHED"} ->
           [isLoading |-> FALSE, isAuthenticated |-> TRUE,
            user |-> action.user, error |-> Null]
      [] action.type = "ERROR" ->
           [isLoading |-> FALSE, isAuthenticated |-> FALSE,
            user |-> Null, error |-> action.error]
      [] OTHER -> s

\* authReducer(state, action): a new AuthState per case, the state itself by
\* default
authReducer(s, action) ==
    CASE action.type = "INITIALIZING" ->
           [isLoading |-> TRUE, isAuthenticated |-> FALSE, user |-> Null, error |-> Null]
      [] action.type = "INITIALIZED" ->
           IF action.user # Null
           THEN [isLoading |-> FALSE, isAuthenticated |-> TRUE,
                 user |-> action.user, error |-> Null]
           ELSE [isLoading |-> FALSE, isAuthenticated |-> FALSE,
                 user |-> Null, error |-> Null]
      [] action.type = "LOGIN_STARTED" ->
           [isLoading |-> TRUE, isAuthenticated |-> FALSE, user |-> Null, error |-> Null]
      [] action.type = "LOGIN_COMPLETED" ->
           [isLoading |-> FALSE, isAuthenticated |-> TRUE,
            user |-> action.user, error |-> Null]
      [] action.type = "LOGOUT_COMPLETED" ->
           [isLoading |-> FALSE, isAuthenticated |-> FALSE, user |-> Null, error |-> Null]
      [] action.type = "TOKEN_REFRESHED" ->
           [isLoading |-> FALSE, isAuthenticated |-> TRUE,
            user |-> action.user, error |-> Null]
      [] action.type = "ERROR" ->
           [isLoading |-> FALSE, isAuthenticated |-> FALSE,
            user |-> Null, error |-> action.error]
      [] OTHER -> s

\* the AuthAction vocabulary, and an action of a type outside it
AnyActions == SampleActions \cup {Action("UNKNOWN", Null, Null)}

\* authReducer applied to the state the store held and to a second state
Reduces ==
    /\ observer.reduced = << >>
    /\ observer' = [observer EXCEPT
           !.reduced = << authReducer(observer.before, observer.action),
                          authReducer(observer.other, observer.action) >>]
    /\ UNCHANGED << controller, state, cleanup, login, mapping, guard, token >>

ReducerInit ==
    /\ Built
    /\ state \in SampleStates
    /\ \E action \in AnyActions, other \in SampleStates :
          observer = [pc |-> 0, action |-> action, before |-> state, seen |-> << >>,
                      other |-> other, reduced |-> << >>]
    /\ cleanup = idleCleanup /\ login = idleLogin
    /\ mapping = idleMapping /\ guard = idleGuard
    /\ token = idleToken

ReducerNext == Assigns \/ Reduces

ReducerSpec == ReducerInit /\ [][ReducerNext]_vars

(***************************************************************************)
(* The route guards (createAuthGuard, createGlobalAuthGuard) on one        *)
(* navigation.  The controller is seen through its reactive state, which   *)
(* its own runs and the engine's notifications keep changing.              *)
(***************************************************************************)
\* a controller built from options that validateConfig rejects: initialize()
\* has thrown before creating the engine, the state stays as constructed
Stuck ==
    /\ config \in InvalidConfigs
    /\ address = {}
    /\ pendingResponse = FALSE
    /\ engineUser = Null
    /\ construction = "returned"
    /\ userManager = "null"
    /\ listeners = FALSE
    /\ pcInit = "settled"
    /\ initOutcome = "rejected"
    /\ lastDispatch = [type |-> "none", origin |-> "none"]
    /\ nextTok = 1
    /\ used = 0
    /\ calls = [p \in Slots |-> idleCall]
    /\ exchanges = [c \in {"init", "app", "cb"} |-> 0]
    /\ onErrorCalls = << >>
    /\ onRedirectCalls = << >>
    /\ initLog = << >>
    /\ cb = idleCb

\* AuthGuardOptions: returnTo absent, empty or given
GuardOptions ==
    {EmptyObject} \cup {[k \in {"returnTo"} |-> v] : v \in {"", "/configured"}}

\* the route navigated to
TargetRoute == [fullPath |-> "/target"]

\* returnTo || to.fullPath
guardReturnToUnlessEmpty(options, to) ==
    IF "returnTo" \in DOMAIN options /\ options["returnTo"] # ""
    THEN options["returnTo"] ELSE to.fullPath

\* returnTo ?? to.fullPath
guardReturnTo(options, to) ==
    IF "returnTo" \in DOMAIN options THEN options["returnTo"] ELSE to.fullPath

\* the guard after its wait, on the state it reads: return true, or build
\* loginOptions, call onRedirecting and loginWithRedirect up to its await
GuardDecides ==
    IF state.isAuthenticated
    THEN /\ guard' = [guard EXCEPT !.pc = "done", !.result = "true", !.decidedOn = state]
         /\ NoDispatch
    ELSE IF guard.onRedirecting = "throws"
    THEN /\ guard' = [guard EXCEPT !.pc = "done", !.result = "threw",
                                   !.decidedOn = state, !.redirecting = @ + 1]
         /\ NoDispatch
    ELSE LET returnTo == guardReturnTo(guard.options, TargetRoute)
             called == [guard EXCEPT
                           !.decidedOn = state,
                           !.redirecting = IF guard.onRedirecting = "absent"
                                           THEN @ ELSE @ + 1,
                           !.loginCalls = Append(@, [returnTo |-> returnTo])]
         IN IF userManager = "null"
            THEN /\ guard' = [called EXCEPT !.pc = "loginRejected"]
                 /\ NoDispatch
            ELSE /\ guard' = [called EXCEPT !.pc = "signinRedirect"]
                 /\ Issue(state, Action("LOGIN_STARTED", Null, Null), "loginWithRedirect")

\* the router calls the guard: inject (createAuthGuard only), then the
\* first look at isLoading
GuardCalled ==
    /\ guard.pc = "created"
    /\ IF guard.kind = "createAuthGuard" /\ ~guard.injected
       THEN /\ guard' = [guard EXCEPT !.pc = "done", !.result = "false",
                                      !.decidedOn = state]
            /\ NoDispatch
       ELSE IF state.isLoading
            THEN /\ guard' = [guard EXCEPT !.pc = "polling", !.polled = TRUE]
                 /\ NoDispatch
            ELSE GuardDecides
    /\ UNCHANGED << config, address, construction, userManager, listeners, pcInit,
                    initOutcome, engineUser, pendingResponse, nextTok, used, calls,
                    exchanges, onErrorCalls, onRedirectCalls, initLog, cb,
                    cleanup, login, mapping, observer, token >>

\* setTimeout(checkLoading, 50) fires: poll again, or resolve and go on
GuardPolls ==
    /\ guard.pc = "polling"
    /\ IF state.isLoading
       THEN UNCHANGED << guard, state, lastDispatch >>
       ELSE GuardDecides
    /\ UNCHANGED << config, address, construction, userManager, listeners, pcInit,
                    initOutcome, engineUser, pendingResponse, nextTok, used, calls,
                    exchanges, onErrorCalls, onRedirectCalls, initLog, cb,
                    cleanup, login, mapping, observer, token >>

\* the guard's loginWithRedirect settles (the engine navigates away or
\* rejects, or there was no engine); the guard swallows a rejection
GuardLoginSettles ==
    /\ \/ /\ guard.pc = "signinRedirect"
          /\ \/ /\ guard' = [guard EXCEPT !.pc = "done", !.result = "false",
                                          !.loginOutcome = "resolved"]
                /\ NoDispatch
             \/ \E e \in EngineThrown :
                  /\ Issue(state, Action("ERROR", Null,
                                 LoginError("Failed to initiate login", CauseOf(e))),
                           "loginWithRedirect")
                  /\ guard' = [guard EXCEPT !.pc = "done", !.result = "false",
                                            !.loginOutcome = "rejected"]
       \/ /\ guard.pc = "loginRejected"
          /\ guard' = [guard EXCEPT !.pc = "done", !.result = "false",
                                    !.loginOutcome = "rejected"]
          /\ NoDispatch
    /\ UNCHANGED << config, address, construction, userManager, listeners, pcInit,
                    initOutcome, engineUser, pendingResponse, nextTok, used, calls,
                    exchanges, onErrorCalls, onRedirectCalls, initLog, cb,
                    cleanup, login, mapping, observer, token >>

\* the controller dispatches on its own account while the guard is
\* suspended or not yet called
StoreChanges ==
    /\ userManager # "null"
    /\ guard.pc \in {"created", "polling", "signinRedirect"}
    /\ \E action \in SampleActions :
          /\ dispatch(state, action) # state
          /\ Issue(state, action, "controller")
    /\ UNCHANGED << config, address, construction, userManager, listeners, pcInit,
                    initOutcome, engineUser, pendingResponse, nextTok, used, calls,
                    exchanges, onErrorCalls, onRedirectCalls, initLog, cb, units >>

GuardInit ==
    /\ \/ Built /\ state = dispatch(initialAuthState, Action("INITIALIZED", Null, Null))
       \/ Stuck /\ state = initialAuthState
    /\ \E kind \in {"createAuthGuard", "createGlobalAuthGuard"},
          injected \in BOOLEAN,
          options \in GuardOptions,
          onRedirecting \in {"absent", "returns", "throws"} :
          /\ kind = "createGlobalAuthGuard" => injected
          /\ guard = [pc |-> "created", kind |-> kind, injected |-> injected,
                      options |-> options, onRedirecting |-> onRedirecting,
                      polled |-> FALSE, decidedOn |-> Null, redirecting |-> 0, loginCalls |-> << >>,
                      loginOutcome |-> "none", result |-> "none"]
    /\ cleanup = idleCleanup /\ login = idleLogin
    /\ mapping = idleMapping /\ observer = idleObserver
    /\ token = idleToken

GuardNext ==
    \/ GuardCalled
    \/ GuardPolls
    \/ GuardLoginSettles
    \/ StoreChanges

GuardSpec == GuardInit /\ [][GuardNext]_vars

\* a loading state of a built controller ends: the engine call behind it
\* settles
LoadingEnds == state.isLoading /\ StoreChanges /\ ~state'.isLoading

\* The router calls the guard, the timer of the poll fires, and the guard's
\* login settles.  A poll goes on only when it finds isLoading false, which
\* the store may hold off and on: strong fairness.
GuardFairSpec ==
    /\ GuardSpec
    /\ WF_vars(GuardCalled)
    /\ SF_vars(GuardPolls)
    /\ WF_vars(GuardLoginSettles)
    /\ WF_vars(LoadingEnds)

(***************************************************************************)
(* The specification.                                                      *)
(***************************************************************************)
Next ==
    \/ createScalekitAuth
    \/ InitExchangeResolves
    \/ InitExchangeRejects
    \/ InitGetUserResolves
    \/ InitGetUserRejects
    \/ InitializeSettles
    \/ \E p \in Slots : loginWithRedirect(p)
    \/ \E p \in Slots : SigninRedirectSettles(p)
    \/ \E p \in Slots : loginWithPopup(p)
    \/ \E p \in Slots : SigninPopupResolves(p)
    \/ \E p \in Slots : SigninPopupRejects(p)
    \/ \E p \in Slots : logout(p)
    \/ \E p \in Slots : SignoutRedirectSettles(p)
    \/ \E p \in Slots : getAccessToken(p)
    \/ \E p \in Slots : GetUserSettles(p)
    \/ \E p \in Slots : RenewalResolves(p)
    \/ \E p \in Slots : RenewalFails(p)
    \/ \E p \in Slots : refreshToken(p)
    \/ \E p \in Slots : RefreshResolves(p)
    \/ \E p \in Slots : RefreshRejects(p)
    \/ \E p \in Slots : handleRedirectCallback(p)
    \/ \E p \in Slots : ExchangeResolves(p)
    \/ \E p \in Slots : ExchangeRejects(p)
    \/ \E p \in Slots : Return(p)
    \/ Mount
    \/ WatcherRuns
    \/ UserLoaded
    \/ UserUnloaded
    \/ SilentRenewError
    \/ AccessTokenExpired

Spec == Init /\ [][Next]_vars

(***************************************************************************)
(* The useAccessToken composable on a controller whose initialize() has    *)
(* ended.  Its calls of getAccessToken take call slots like the            *)
(* application's; the application's login and the engine's notifications   *)
(* go on beside it.                                                        *)
(***************************************************************************)
\* a controller that has rehydrated a session
Rehydrated ==
    /\ config = ValidConfig(TRUE)
    /\ address = {}
    /\ pendingResponse = FALSE
    /\ engineUser = OidcUser(1, FALSE)
    /\ construction = "returned"
    /\ userManager = "created"
    /\ listeners = TRUE
    /\ pcInit = "settled"
    /\ initOutcome = "done_rehydrate"
    /\ state = dispatch(initialAuthState,
                        Action("INITIALIZED", mapOidcUserToScalekitUser(engineUser), Null))
    /\ lastDispatch = [type |-> "INITIALIZED", origin |-> "initialize"]
    /\ nextTok = 1
    /\ used = 0
    /\ calls = [p \in Slots |-> idleCall]
    /\ exchanges = [c \in {"init", "app", "cb"} |-> 0]
    /\ onErrorCalls = << >>
    /\ onRedirectCalls = << >>
    /\ initLog = << "INITIALIZED" >>
    /\ cb = idleCb

\* the calls of getAccessToken the composable has in flight
TokenFetches == {p \in Slots : calls[p].caller \in {"fetchToken", "refresh"}}

\* fetchToken() up to its return or its  await getAccessToken(), run by the
\* watcher on composable t
fetchToken(t) ==
    IF ~state.isAuthenticated \/ state.isLoading
    THEN /\ token' = IF ~state.isLoading
                     THEN [t EXCEPT !.isLoading = FALSE, !.accessToken = Null]
                     ELSE t
         /\ UNCHANGED calls
    ELSE /\ token' = [t EXCEPT !.isLoading = TRUE, !.error = Null]
         /\ \E p \in Slots :
               /\ Free(p)
               /\ calls' = [calls EXCEPT ![p] =
                               Started("getAccessToken", "getUser", "fetchToken")]

\* useAccessToken(): the refs, and the watcher with immediate: true
TokenMounts ==
    /\ ~token.mounted /\ Quiet
    /\ fetchToken([mounted |-> TRUE, watched |-> Watched(state), accessToken |-> Null,
                   isLoading |-> TRUE, error |-> Null])
    /\ UNCHANGED << config, address, construction, userManager, listeners, pcInit,
                    initOutcome, used, state, lastDispatch, engineUser, pendingResponse,
                    nextTok, exchanges, onErrorCalls, onRedirectCalls, initLog, cb,
                    cleanup, login, mapping, observer, guard >>

\* the watcher's job runs: a source differs from what it last saw
TokenWatcherRuns ==
    /\ token.mounted /\ Watched(state) # token.watched
    /\ fetchToken([token EXCEPT !.watched = Watched(state)])
    /\ UNCHANGED << config, address, construction, userManager, listeners, pcInit,
                    initOutcome, used, state, lastDispatch, engineUser, pendingResponse,
                    nextTok, exchanges, onErrorCalls, onRedirectCalls, initLog, cb,
                    cleanup, login, mapping, observer, guard >>

\* refresh() up to its return or its  await getAccessToken({ forceRefresh: true })
TokenRefresh ==
    /\ token.mounted /\ Callable
    /\ used' = used + 1
    /\ IF ~state.isAuthenticated
       THEN UNCHANGED << token, calls >>
       ELSE /\ token' = [token EXCEPT !.isLoading = TRUE, !.error = Null]
            /\ \E p \in Slots :
                  /\ Free(p)
                  /\ calls' = [calls EXCEPT ![p] =
                                  [Started("getAccessToken", "getUser", "refresh")
                                      EXCEPT !.forceRefresh = TRUE]]
    /\ UNCHANGED << config, address, construction, userManager, listeners, pcInit,
                    initOutcome, state, lastDispatch, engineUser, pendingResponse,
                    nextTok, exchanges, onErrorCalls, onRedirectCalls, initLog, cb,
                    cleanup, login, mapping, observer, guard >>

\* the composable's await of getAccessToken continues: the try, the catch
\* and the finally of fetchToken() and of refresh()
TokenContinues(p) ==
    /\ calls[p].pc = "done" /\ p \in TokenFetches
    /\ token' =
          IF calls[p].caller = "fetchToken"
          THEN IF calls[p].result = "value"
               THEN [token EXCEPT !.accessToken = calls[p].value, !.isLoading = FALSE]
               ELSE [token EXCEPT !.error = calls[p].error, !.accessToken = Null,
                                  !.isLoading = FALSE]
          ELSE IF calls[p].result = "value"
               THEN [token EXCEPT !.accessToken = calls[p].value, !.isLoading = FALSE]
               ELSE [token EXCEPT !.error = calls[p].error, !.isLoading = FALSE]
    /\ calls' = [calls EXCEPT ![p] = idleCall]
    /\ UNCHANGED << config, address, construction, userManager, listeners, pcInit,
                    initOutcome, used, state, lastDispatch, engineUser, pendingResponse,
                    nextTok, exchanges, onErrorCalls, onRedirectCalls, initLog, cb,
                    cleanup, login, mapping, observer, guard >>

TokenInit ==
    /\ \/ Rehydrated
       \/ Built /\ state = dispatch(initialAuthState, Action("INITIALIZED", Null, Null))
    /\ UnitsIdle

TokenNext ==
    \/ TokenMounts
    \/ TokenWatcherRuns
    \/ TokenRefresh
    \/ \E p \in Slots : TokenContinues(p)
    \/ \E p \in Slots : GetUserSettles(p)
    \/ \E p \in Slots : RenewalResolves(p)
    \/ \E p \in Slots : RenewalFails(p)
    \/ \E p \in Slots : loginWithPopup(p)
    \/ \E p \in Slots : SigninPopupResolves(p)
    \/ \E p \in Slots : SigninPopupRejects(p)
    \/ \E p \in Slots : Return(p)
    \/ UserUnloaded
    \/ SilentRenewError
    \/ AccessTokenExpired

TokenSpec == TokenInit /\ [][TokenNext]_vars

(***************************************************************************)
(* Scheduling.  The event loop runs every continuation it has queued, and  *)
(* every call into the protocol engine settles.  A settling is held back   *)
(* while a queued continuation goes first, so it is enabled off and on:    *)
(* strong fairness.                                                        *)
(***************************************************************************)
EngineSettles ==
    \/ InitExchangeResolves
    \/ InitExchangeRejects
    \/ InitGetUserResolves
    \/ InitGetUserRejects
    \/ \E p \in Slots : SigninRedirectSettles(p)
    \/ \E p \in Slots : SigninPopupResolves(p)
    \/ \E p \in Slots : SigninPopupRejects(p)
    \/ \E p \in Slots : SignoutRedirectSettles(p)
    \/ \E p \in Slots : GetUserSettles(p)
    \/ \E p \in Slots : RenewalResolves(p)
    \/ \E p \in Slots : RenewalFails(p)
    \/ \E p \in Slots : RefreshResolves(p)
    \/ \E p \in Slots : RefreshRejects(p)
    \/ \E p \in Slots : ExchangeResolves(p)
    \/ \E p \in Slots : ExchangeRejects(p)

FairSpec ==
    /\ Spec
    /\ WF_vars(createScalekitAuth)
    /\ WF_vars(InitializeSettles)
    /\ WF_vars(\E p \in Slots : Return(p))
    /\ WF_vars(WatcherRuns)
    /\ SF_vars(EngineSettles)

(***************************************************************************)
(* Properties.                                                             *)
(***************************************************************************)
\* an in-flight or settled call of the given operation
DoneCalls(op) == {p \in Slots : calls[p].op = op /\ calls[p].pc = "done"}
InitFailures == {"failed_callback", "failed_onRedirect", "failed_lookup"}

\* C1: between dispatches the AuthState is exactly one of Initializing,
\* Unauthenticated, Authenticated, Errored; isAuthenticated is true exactly
\* when user is non-null and error is null, and a non-null error comes with
\* isAuthenticated false and user null.
C1_StateIsOneOfFourVariants ==
    /\ \/ Initializing(state) \/ Unauthenticated(state)
       \/ Authenticated(state) \/ Errored(state)
    /\ state.isAuthenticated <=> (state.user # Null /\ state.error = Null)
    /\ state.error # Null => (~state.isAuthenticated /\ state.user = Null)

\* an ERROR dispatch has landed on an Authenticated state
C1_Witness ==
    /\ Errored(state)
    /\ lastDispatch.type = "ERROR" /\ lastDispatch.origin = "silentRenewError"
    /\ engineUser # Null /\ initOutcome = "done_rehydrate"

\* C2 (as stated): an invalid configuration makes construction fail
\* synchronously with a Configuration error, and no engine is created, no
\* listener registered and no exchange requested.
C2_InvalidConfigFailsConstruction ==
    (validateConfig(config) # Null /\ construction # "pending") =>
        /\ construction = "threw"
        /\ userManager = "null" /\ ~listeners
        /\ \A c \in DOMAIN exchanges : exchanges[c] = 0

\* C3: when the callback exchange, the redirect-completion callback or the
\* session lookup throws inside initialize(), the state ends Errored with the
\* error (an Error is kept as it is, any other thrown value is replaced by
\* Error('Initialization failed')), onError is invoked with that same error,
\* and construction has returned normally.
C3_InitFailureEndsErrored ==
    (pcInit = "settling" /\ initOutcome \in InitFailures) =>
        /\ Errored(state)
        /\ onErrorCalls # << >>
        /\ onErrorCalls[Len(onErrorCalls)] = state.error
        /\ initOutcome = "failed_callback" =>
               state.error = CallbackError("Failed to process authentication callback",
                                           "Error")
        /\ initOutcome = "failed_onRedirect" =>
               state.error \in {initError(e) : e \in CallbackThrown}
        /\ initOutcome = "failed_lookup" => state.error \in EngineThrown
        /\ construction = "returned"

\* the redirect-completion callback threw after a successful exchange
C3_Witness ==
    /\ pcInit = "settling" /\ initOutcome = "failed_onRedirect"
    /\ Errored(state) /\ state.error = PlainError("Initialization failed")
    /\ engineUser # Null

\* initialize() is suspended at its first await and nothing else has touched
\* the address yet
JustConstructed ==
    /\ pcInit \in {"exchange", "getUser"}
    /\ exchanges["app"] = 0 /\ exchanges["cb"] = 0

\* C4: with auto-handle disabled, or an address carrying neither code nor
\* error, initialize() requests no code exchange; when the session lookup
\* answers, it ends Authenticated with the mapped user iff the engine holds a
\* session that is not expired, and Unauthenticated otherwise.
C4_RehydrationPath ==
    /\ (JustConstructed /\ (~config.autoHandleCallback \/ ~hasAuthParams(address))) =>
           (pcInit = "getUser" /\ exchanges["init"] = 0)
    /\ initOutcome \in {"done_rehydrate", "failed_lookup"} => exchanges["init"] = 0
    /\ (pcInit = "settling" /\ initOutcome = "done_rehydrate") =>
           /\ initLog = << "INITIALIZED" >>
           /\ IF engineUser # Null /\ ~engineUser.expired
              THEN /\ Authenticated(state)
                   /\ state.user = mapOidcUserToScalekitUser(engineUser)
              ELSE Unauthenticated(state)

\* auto-handle disabled, a code in the address and an expired session:
\* initialize() ended Unauthenticated without exchanging
C4_Witness ==
    /\ pcInit = "settling" /\ initOutcome = "done_rehydrate"
    /\ ~config.autoHandleCallback /\ "code" \in address
    /\ engineUser # Null /\ engineUser.expired
    /\ Unauthenticated(state)

\* C5 (as stated): on the callback path the dispatches of initialize() are
\* Initialized followed by LoginCompleted, the final state is Authenticated
\* and the address has lost code and state.
C5_InitializedThenLoginCompleted ==
    (pcInit = "settling" /\ initOutcome = "done_callback") =>
        /\ initLog = << "INITIALIZED", "LOGIN_COMPLETED" >>
        /\ Authenticated(state)
        /\ "code" \notin address /\ "state" \notin address

\* C5 (amended): with auto-handle enabled and code and state in the address,
\* initialize() requests the exchange; when it succeeds and onRedirectCallback
\* returns, the only dispatch initialize() has issued is LoginCompleted, the
\* state is Authenticated with the exchanged user, and the address carries
\* neither code nor state.
C5_CallbackPath ==
    /\ (JustConstructed /\ config.autoHandleCallback /\ {"code", "state"} \subseteq address)
           => (pcInit = "exchange" /\ exchanges["init"] = 1)
    /\ (pcInit = "settling" /\ initOutcome = "done_callback") =>
           /\ initLog = << "LOGIN_COMPLETED" >>
           /\ exchanges["init"] = 1
           /\ Authenticated(state)
           /\ state.user = mapOidcUserToScalekitUser(engineUser)
           /\ "code" \notin address /\ "state" \notin address

\* the exchange succeeded on an address that carried more than the code
C5_Witness ==
    /\ pcInit = "settling" /\ initOutcome = "done_callback"
    /\ config.autoHandleCallback /\ Authenticated(state)
    /\ address = {"other"}

\* C6 (as stated): with an error parameter in the address no exchange is
\* requested, and the store ends Errored with a Callback error whose message
\* is the error description.
C6_ErrorParamSkipsExchange ==
    ("error" \in address /\ pcInit \in {"settling", "settled"} /\ used = 0) =>
        /\ \A c \in DOMAIN exchanges : exchanges[c] = 0
        /\ Errored(state)
        /\ state.error.name = "CallbackError"
        /\ state.error.message = ErrorDescription

\* C6 (amended): with an error parameter in the address and auto-handle
\* enabled, initialize() does request the exchange; the engine rejects it and
\* the store ends Errored with the Callback error "Failed to process
\* authentication callback".  The ScalekitCallback component requests no
\* exchange: it puts a Callback error with the error description in its own
\* error and emits it, and the store keeps what initialize() left.
C6_ErrorParam ==
    /\ (JustConstructed /\ config.autoHandleCallback /\ "error" \in address) =>
           (pcInit = "exchange" /\ exchanges["init"] = 1)
    /\ (pcInit = "settling" /\ "error" \in address /\ exchanges["init"] = 1) =>
           /\ initOutcome = "failed_callback"
           /\ Errored(state)
           /\ state.error = CallbackError("Failed to process authentication callback",
                                          "Error")
    /\ ("error" \in address /\ cb.processed) =>
           /\ exchanges["cb"] = 0
           /\ cb.error = CallbackError(ErrorDescription, "none")
           /\ cb.emittedError /\ ~cb.emittedSuccess
    /\ ("error" \in address /\ cb.processed /\ pcInit = "settled" /\ used = 0) =>
           /\ lastDispatch.origin = "initialize"
           /\ state.error # cb.error
           /\ config.autoHandleCallback =>
                  state.error = CallbackError("Failed to process authentication callback",
                                              "Error")

\* initialize() auto-handled the error response and the component then
\* reported the description
C6_Witness ==
    /\ "error" \in address /\ config.autoHandleCallback
    /\ pcInit = "settled" /\ used = 0
    /\ cb.processed /\ cb.error.message = ErrorDescription
    /\ Errored(state)
    /\ state.error.message = "Failed to process authentication callback"

\* C7: onRedirectCallback is invoked, once and with the exchanged user,
\* exactly when the exchange requested by initialize() succeeded; at that
\* moment the state is Authenticated with that user; a failed exchange and
\* the rehydration path do not invoke it.
C7_OnRedirectCallback ==
    /\ Len(onRedirectCalls) <= 1
    /\ onRedirectCalls # << >> <=> initOutcome \in {"done_callback", "failed_onRedirect"}
    /\ onRedirectCalls # << >> => exchanges["init"] = 1
    /\ \A i \in DOMAIN onRedirectCalls :
           /\ onRedirectCalls[i].user # Null
           /\ Authenticated(onRedirectCalls[i].state)
           /\ onRedirectCalls[i].state.user = onRedirectCalls[i].user
    /\ (pcInit = "settling" /\ onRedirectCalls # << >>) =>
           onRedirectCalls[1].user = mapOidcUserToScalekitUser(engineUser)

\* initialize() auto-handled the callback and onRedirectCallback has run
C7_Witness ==
    /\ pcInit = "settling" /\ initOutcome = "done_callback"
    /\ Len(onRedirectCalls) = 1
    /\ onRedirectCalls[1].state = state

\* C8: a getAccessToken() that finds no session held (or no engine at all)
\* fails with NotAuthenticated, unwrapped, without requesting a renewal; any
\* other failure of getAccessToken reaches the caller as a TokenRefresh error.
C8_NotAuthenticatedIsNotRewrapped ==
    \A p \in DoneCalls("getAccessToken") :
        LET c == calls[p]
        IN /\ c.seen \in {"noengine", "nouser"} =>
                  /\ c.result = "error"
                  /\ c.error.name = "NotAuthenticatedError"
                  /\ c.error.code = "NOT_AUTHENTICATED_ERROR"
                  /\ c.renewals = 0
           /\ c.seen = "noengine" <=> userManager = "null"
           /\ c.seen = "nouser" => engineUser = Null
           /\ (engineUser = Null /\ c.renewals = 0) =>
                  c.seen \in {"noengine", "nouser", "rejected"}
           /\ (c.result = "error" /\ c.seen \notin {"noengine", "nouser"}) =>
                  /\ c.error.name = "TokenRefreshError"
                  /\ c.error.code = "TOKEN_REFRESH_ERROR"

\* an engine exists, holds no session, and the call has just failed
C8_Witness ==
    \E p \in DoneCalls("getAccessToken") :
        /\ userManager = "created" /\ engineUser = Null
        /\ calls[p].seen = "nouser"
        /\ calls[p].error = NotAuthenticatedError("User is not authenticated")

\* One step of the call in slot p, for C9
C9_Step(p) ==
    /\ ( /\ calls[p].op = "getAccessToken" /\ calls[p].pc = "getUser"
         /\ calls'[p].pc # "getUser" /\ calls'[p].seen # "rejected"
         /\ ~calls[p].forceRefresh
         /\ engineUser # Null /\ ~engineUser.expired )
       => /\ calls'[p].pc = "done" /\ calls'[p].result = "value"
          /\ calls'[p].value = TokenValue(engineUser.access_token)
          /\ calls'[p].renewals = 0
          /\ state' = state /\ lastDispatch' = lastDispatch
          /\ engineUser' = engineUser
    /\ ( /\ calls[p].op = "loginWithPopup" /\ calls[p].pc # "done"
         /\ calls'[p].pc = "done" /\ calls'[p].result = "value" )
       => /\ engineUser' # Null /\ ~engineUser'.expired
          /\ engineUser'.access_token = calls'[p].value.accessToken

\* C9: when the session lookup answers, a getAccessToken() without
\* forceRefresh on an unexpired session resolves with that session's access
\* token, requests no renewal and leaves the AuthState alone; a successful
\* loginWithPopup() leaves the engine holding an unexpired session whose
\* access token is the one of the user it resolved with.
C9_ReturnsHeldToken == [][\A p \in Slots : C9_Step(p)]_vars

\* right after a successful popup login, getAccessToken() has resolved with
\* the token of the logged-in user
C9_Witness ==
    \E p \in DoneCalls("getAccessToken") :
        /\ ~calls[p].forceRefresh /\ calls[p].renewals = 0
        /\ calls[p].result = "value"
        /\ lastDispatch = [type |-> "LOGIN_COMPLETED", origin |-> "loginWithPopup"]
        /\ Authenticated(state)
        /\ calls[p].value = TokenValue(state.user.accessToken)

\* C10: with forceRefresh, or on an expired session, getAccessToken()
\* requests exactly one renewal; it resolves with the access token of the
\* renewed session, which differs from the one read before the renewal; a
\* renewal that yields no session, or fails, ends in a TokenRefresh error.
C10_ExactlyOneRenewal ==
    \A p \in Slots :
        LET c == calls[p]
        IN c.op = "getAccessToken" =>
           /\ c.pc = "signinSilent" => c.renewals = 1
           /\ c.renewals = 1 <=>
                  (c.seen = "user" /\ (c.forceRefresh \/ c.fetched.expired))
           /\ c.renewals \in {0, 1}
           /\ (c.pc = "done" /\ c.renewals = 1) =>
                  /\ c.result = "value" =>
                         /\ c.oidcUser # Null /\ c.oidcUser = engineUser
                         /\ c.value = TokenValue(c.oidcUser.access_token)
                         /\ c.value.token # c.fetched.access_token
                  /\ c.result = "error" => c.error.name = "TokenRefreshError"
                  /\ c.oidcUser = Null =>
                         /\ c.result = "error"
                         /\ c.error = TokenRefreshError("Failed to get access token",
                                                        "TokenRefreshError")

\* an expired session was renewed without forceRefresh
C10_Witness ==
    \E p \in DoneCalls("getAccessToken") :
        /\ ~calls[p].forceRefresh
        /\ calls[p].seen = "user" /\ calls[p].fetched.expired
        /\ calls[p].renewals = 1 /\ calls[p].result = "value"
        /\ calls[p].value = TokenValue(engineUser.access_token)

\* the call in slot p settles in this step
Settles(p) == calls[p].pc \notin {"idle", "done"} /\ calls'[p].pc = "done"
\* the call in slot p starts in this step
Starts(p, op) == calls[p].op = "idle" /\ calls'[p].op = op

\* C11 (as stated): a renewal that fails or returns no session inside
\* getAccessToken or refreshToken leaves the state Errored with a TokenRefresh
\* error, and that same error is thrown to the caller.
C11_RenewalFailureIsDispatched ==
    \A p \in Slots :
        LET c == calls[p]
        IN ( /\ c.pc = "done" /\ c.renewals = 1
             /\ c.op \in {"getAccessToken", "refreshToken"}
             /\ c.result = "error" \/ (c.op = "refreshToken" /\ c.value = Null) )
           => /\ c.result = "error"
              /\ c.error.name = "TokenRefreshError"
              /\ Errored(state) /\ state.error = c.error

\* One step of the call in slot p, for C11
C11_Step(p) ==
    /\ (Settles(p) /\ calls[p].op = "getAccessToken" /\ calls[p].pc = "signinSilent"
            /\ calls'[p].result = "error")
       => /\ calls'[p].error.name = "TokenRefreshError"
          /\ state' = state /\ lastDispatch' = lastDispatch
    /\ (Settles(p) /\ calls[p].op = "refreshToken" /\ calls'[p].result = "error")
       => /\ calls'[p].error = TokenRefreshError("Token refresh failed", "Error")
          /\ Errored(state') /\ state'.error = calls'[p].error
    /\ (Settles(p) /\ calls[p].op = "refreshToken" /\ calls'[p].result = "value"
            /\ calls'[p].value = Null)
       => state' = state /\ lastDispatch' = lastDispatch

\* C11 (amended): a renewal that rejects inside refreshToken() leaves the
\* state Errored with a TokenRefresh error that is also thrown to the caller;
\* a renewal that returns no session inside refreshToken() resolves with null
\* and leaves the state alone; a renewal that fails or returns no session
\* inside getAccessToken() throws a TokenRefresh error to the caller and
\* leaves the state alone.
C11_RenewalFailure == [][\A p \in Slots : C11_Step(p)]_vars

\* a forced renewal failed inside getAccessToken and the state is still
\* Authenticated
C11_Witness ==
    \E p \in DoneCalls("getAccessToken") :
        /\ calls[p].renewals = 1 /\ calls[p].result = "error"
        /\ calls[p].error.name = "TokenRefreshError"
        /\ Authenticated(state)

\* One step of the call in slot p, for C12
C12_Step(p) ==
    (Settles(p) /\ calls[p].op \in {"loginWithRedirect", "loginWithPopup", "logout"}) =>
        /\ calls'[p].result = "error" =>
               /\ calls'[p].error.name =
                      (IF calls[p].op = "logout" THEN "LogoutError" ELSE "LoginError")
               /\ calls'[p].error.code =
                      (IF calls[p].op = "logout" THEN "LOGOUT_ERROR" ELSE "LOGIN_ERROR")
               /\ calls'[p].error.cause = "Error"
               /\ Errored(state') /\ state'.error = calls'[p].error
        /\ (Errored(state') /\ state' # state) => calls'[p].result = "error"

\* C12: when the engine fails during loginWithRedirect, loginWithPopup or
\* logout, the promise rejects with a Login (or Logout) error whose cause is
\* the engine's error, and the state is Errored with that same error; a
\* failure that made the state Errored is never answered by a resolution.
C12_EngineFailureRejects == [][\A p \in Slots : C12_Step(p)]_vars

\* logout has just rejected on an engine that held a session
C12_Witness ==
    \E p \in DoneCalls("logout") :
        /\ calls[p].result = "error"
        /\ calls[p].error = LogoutError("Logout failed", "Error")
        /\ state.error = calls[p].error /\ engineUser # Null

\* One step of the call in slot p, for C13
C13_Step(p) ==
    /\ (Starts(p, "loginWithPopup") /\ userManager = "created") =>
           /\ calls'[p].pc = "signinPopup"
           /\ lastDispatch' = [type |-> "LOGIN_STARTED", origin |-> "loginWithPopup"]
           /\ state'.isLoading /\ state'.user = Null
           /\ ~state'.isAuthenticated /\ state'.error = Null
    /\ (Settles(p) /\ calls[p].op = "loginWithPopup" /\ calls'[p].result = "value") =>
           /\ lastDispatch' = [type |-> "LOGIN_COMPLETED", origin |-> "loginWithPopup"]
           /\ Authenticated(state')
           /\ state'.user = calls'[p].value
           /\ calls'[p].value = mapOidcUserToScalekitUser(engineUser')

\* C13: loginWithPopup() first dispatches LoginStarted, leaving the state
\* loading with no user; when the popup flow succeeds it dispatches
\* LoginCompleted and resolves with the session user, and at resolution the
\* state is Authenticated with the user the call resolved with.
C13_PopupLogin == [][\A p \in Slots : C13_Step(p)]_vars

\* a popup login has just resolved on an engine that held no session before
C13_Witness ==
    \E p \in DoneCalls("loginWithPopup") :
        /\ calls[p].result = "value"
        /\ Authenticated(state) /\ state.user = calls[p].value
        /\ initOutcome = "done_rehydrate" /\ used = 1 /\ nextTok = 2

\* C14 (as stated): every LogoutCompleted dispatch answers a user-unloaded
\* notification of the engine, and nothing else.
C14_LogoutCompletedOnlyOnUserUnloaded ==
    lastDispatch.type = "LOGOUT_COMPLETED" => lastDispatch.origin = "userUnloaded"

\* C14 (amended): logout() never dispatches LogoutCompleted itself; every
\* LogoutCompleted dispatch is issued by an engine listener, either the
\* user-unloaded one or the access-token-expired one.
C14_LogoutCompletedOnlyFromListeners ==
    /\ lastDispatch.type = "LOGOUT_COMPLETED" =>
           lastDispatch.origin \in {"userUnloaded", "accessTokenExpired"}
    /\ lastDispatch.origin = "logout" => lastDispatch.type = "ERROR"

\* the access token expired: LogoutCompleted with the session still stored
C14_Witness ==
    /\ lastDispatch = [type |-> "LOGOUT_COMPLETED", origin |-> "accessTokenExpired"]
    /\ Unauthenticated(state)
    /\ engineUser # Null /\ engineUser.expired

\* C15: refreshToken() called while no engine exists resolves with null; it
\* does not reject, and the AuthState, the latest dispatch and the error
\* callback are left alone.
C15_RefreshWithoutEngine ==
    [][\A p \in Slots :
          (Starts(p, "refreshToken") /\ userManager = "null") =>
              /\ calls'[p].pc = "done"
              /\ calls'[p].result = "value" /\ calls'[p].value = Null
              /\ state' = state /\ lastDispatch' = lastDispatch
              /\ onErrorCalls' = onErrorCalls]_vars

\* the options were rejected, no engine was built, and refreshToken() has
\* just resolved with null
C15_Witness ==
    \E p \in DoneCalls("refreshToken") :
        /\ userManager = "null" /\ construction = "returned"
        /\ calls[p].result = "value" /\ calls[p].value = Null
        /\ Initializing(state)

\* C16: when the renewal requested by refreshToken() yields a session, the
\* call dispatches TokenRefreshed and resolves with the renewed user; at
\* resolution the state is Authenticated with that user, whatever it was.
C16_RefreshSucceeds ==
    [][\A p \in Slots :
          (Settles(p) /\ calls[p].op = "refreshToken" /\ nextTok' # nextTok) =>
              /\ calls'[p].result = "value"
              /\ calls'[p].value = mapOidcUserToScalekitUser(engineUser')
              /\ engineUser'.access_token = nextTok'
              /\ lastDispatch' = [type |-> "TOKEN_REFRESHED", origin |-> "refreshToken"]
              /\ Authenticated(state')
              /\ state'.user = calls'[p].value]_vars

\* initialize() had left the state Errored, and refreshToken() has just
\* resolved with a renewed user
C16_Witness ==
    \E p \in DoneCalls("refreshToken") :
        /\ initOutcome \in InitFailures /\ used = 1
        /\ calls[p].result = "value" /\ calls[p].value # Null
        /\ Authenticated(state) /\ state.user = calls[p].value

\* C17 (as stated): every failure of handleRedirectCallback(), the engine
\* rejecting the exchange or no engine existing, is a Callback error that is
\* both thrown to the caller and dispatched, so that the state is Errored
\* with it.
C17_CallbackFailureIsDispatched ==
    \A p \in DoneCalls("handleRedirectCallback") :
        calls[p].result = "error" =>
            /\ calls[p].error.name = "CallbackError"
            /\ calls[p].error.code = "CALLBACK_ERROR"
            /\ Errored(state) /\ state.error = calls[p].error

\* the exchanges requested of the engine on this page load
TotalExchanges == exchanges["init"] + exchanges["app"] + exchanges["cb"]

\* C18 (as stated): over initialize(), the ScalekitCallback component and
\* direct handleRedirectCallback() calls on one page load, the engine is
\* asked to exchange the authorization response at most once.
C18_ExchangedAtMostOnce == TotalExchanges <= 1

\* C19 (as stated): loginWithRedirect, loginWithPopup, logout, getAccessToken
\* and handleRedirectCallback, invoked while no engine exists, fail with a
\* NotInitialized error.
C19_NotInitializedWithoutEngine ==
    \A p \in Slots :
        ( /\ calls[p].pc = "done" /\ userManager = "null"
          /\ calls[p].op \in {"loginWithRedirect", "loginWithPopup", "logout",
                               "getAccessToken", "handleRedirectCallback"} )
        => /\ calls[p].result = "error"
           /\ calls[p].error.name = "NotInitializedError"

\* a step in which the engine stores a new session and only the user-loaded
\* listener answers (no sign-in or exchange of the controller settles)
UserLoadedAlone ==
    /\ nextTok' # nextTok /\ pcInit' = pcInit
    /\ \A p \in Slots :
          ~(Settles(p) /\ calls[p].op \in {"loginWithPopup", "refreshToken",
                                            "handleRedirectCallback"})

\* C20: a user-loaded notification results in a TokenRefreshed dispatch:
\* right after it the state is Authenticated with the user mapped from the
\* notified session, whatever the state was and whatever call is in flight.
C20_UserLoadedRefreshes ==
    [][UserLoadedAlone =>
          /\ lastDispatch' = [type |-> "TOKEN_REFRESHED", origin |-> "userLoaded"]
          /\ Authenticated(state')
          /\ state'.user = mapOidcUserToScalekitUser(engineUser')]_vars

\* the notification arrived while a popup login was in its loading phase
C20_Witness ==
    /\ lastDispatch = [type |-> "TOKEN_REFRESHED", origin |-> "userLoaded"]
    /\ Authenticated(state)
    /\ state.user = mapOidcUserToScalekitUser(engineUser)
    /\ \E p \in Slots : calls[p].op = "loginWithPopup" /\ calls[p].pc = "signinPopup"

\* a step in which a user-unloaded or an access-token-expired notification
\* is delivered: the engine drops or expires the session on its own, no call
\* of the controller starts or settles
SessionEndsAlone ==
    /\ used' = used + 1 /\ calls' = calls
    /\ engineUser # Null /\ engineUser' # engineUser
    /\ (engineUser' = Null \/ engineUser'.access_token = engineUser.access_token)

\* C21: a user-unloaded notification and an access-token-expired
\* notification each result in a LogoutCompleted dispatch: right after either
\* one the state is Unauthenticated (no user, no error, not loading),
\* whatever the state was before, a prior Errored state included.
C21_SessionEndLogsOut ==
    [][SessionEndsAlone =>
          /\ lastDispatch'.type = "LOGOUT_COMPLETED"
          /\ lastDispatch'.origin =
                 (IF engineUser' = Null THEN "userUnloaded" ELSE "accessTokenExpired")
          /\ Unauthenticated(state')
          /\ state'.error = Null /\ state'.user = Null /\ ~state'.isLoading]_vars

\* the notification cleared the error of a failed silent renewal
C21_Witness ==
    /\ lastDispatch = [type |-> "LOGOUT_COMPLETED", origin |-> "accessTokenExpired"]
    /\ Unauthenticated(state)
    /\ Len(onErrorCalls) = 1
    /\ onErrorCalls[1] = TokenRefreshError("Silent token renewal failed", "Error")
    /\ engineUser # Null /\ engineUser.expired

\* a step in which a silent-renew-failed notification is delivered: an
\* input of the engine that leaves the session and every call as they are
SilentRenewFails ==
    /\ used' = used + 1 /\ calls' = calls
    /\ engineUser' = engineUser /\ nextTok' = nextTok

\* C22: on a silent-renew-failed notification the state becomes Errored
\* with a TokenRefresh error, onError is invoked exactly once with that same
\* error, and no pending call is settled by it; a call made afterwards is
\* never rejected with that error.
C22_SilentRenewFailure ==
    [][/\ SilentRenewFails =>
             /\ lastDispatch' = [type |-> "ERROR", origin |-> "silentRenewError"]
             /\ Errored(state')
             /\ state'.error = TokenRefreshError("Silent token renewal failed", "Error")
             /\ onErrorCalls' = Append(onErrorCalls, state'.error)
             /\ \A p \in Slots : ~Settles(p)
       /\ \A p \in Slots :
             Settles(p) /\ calls'[p].result = "error" =>
                 calls'[p].error # TokenRefreshError("Silent token renewal failed", "Error")
      ]_vars

\* the notification arrived while a getAccessToken call was waiting for its
\* own renewal; the call is still waiting
C22_Witness ==
    /\ lastDispatch = [type |-> "ERROR", origin |-> "silentRenewError"]
    /\ Errored(state) /\ state.error.name = "TokenRefreshError"
    /\ onErrorCalls = << state.error >>
    /\ \E p \in Slots : calls[p].op = "getAccessToken" /\ calls[p].pc = "signinSilent"

AwaitingRenewal ==
    {p \in Slots : calls[p].op = "getAccessToken" /\ calls[p].pc = "signinSilent"}

\* C24: callers of getAccessToken that pass the expiry check before any
\* renewal completes each request a renewal of their own (no coalescing);
\* a renewal that completes resolves the caller that awaited it with the
\* token of that renewal and leaves the other callers waiting for theirs,
\* and the store then holds the TOKEN_REFRESHED of that renewal, so it ends
\* on the one that landed last.
C24_ConcurrentRenewals ==
    [][/\ \A p \in AwaitingRenewal : calls[p].renewals = 1
       /\ \A p \in AwaitingRenewal :
             Settles(p) /\ calls'[p].result = "value" =>
                 /\ nextTok' = nextTok + 1
                 /\ calls'[p].value = TokenValue(nextTok')
                 /\ \A q \in AwaitingRenewal \ {p} :
                       calls'[q] = calls[q]
                 /\ lastDispatch' = [type |-> "TOKEN_REFRESHED", origin |-> "userLoaded"]
                 /\ state'.user = [accessToken |-> nextTok']
      ]_vars

\* two callers raced past the check; the first renewal has landed and its
\* caller holds that token while the second caller still waits
C24_Witness ==
    /\ \E p \in Slots :
          /\ calls[p].op = "getAccessToken" /\ calls[p].pc = "done"
          /\ calls[p].renewals = 1 /\ calls[p].value = TokenValue(nextTok)
    /\ \E q \in AwaitingRenewal : calls[q].renewals = 1
    /\ state.user = [accessToken |-> nextTok] /\ nextTok = 2

\* C29 (as stated): when the page is reached by a successful authorization
\* redirect (the address carries code and state, the exchange succeeds) and
\* the plugin runs with its default configuration, the ScalekitCallback
\* component on that page emits success and never emits error.
C29_CallbackComponentEmitsSuccess ==
    (config.autoHandleCallback /\ initOutcome = "done_callback" /\ cb.processed) =>
        (cb.emittedSuccess /\ ~cb.emittedError)

\* C25: callback consumption is idempotent: for every address, running
\* cleanupAuthParams twice in a row leaves the address the first run left,
\* and the second run performs no history replacement.
C25_CleanupIsIdempotent ==
    cleanup.runs = 2 =>
        /\ cleanup.after[2] = cleanup.after[1]
        /\ \A i \in DOMAIN cleanup.replacedAt : cleanup.replacedAt[i] = 1
        /\ \A i \in DOMAIN cleanup.search : cleanup.search[i] \notin OIDC_PARAMS

\* code occurred twice next to a parameter of the page; both runs are over,
\* the first replaced the history entry and the second did not
C25_Witness ==
    /\ cleanup.runs = 2
    /\ cleanup.input = << "code", "page", "code" >>
    /\ cleanup.search = << "page" >>
    /\ cleanup.replacedAt = << 1 >>

\* the query parameters the engine was handed by the login call
SentParams ==
    IF "extraQueryParams" \in DOMAIN login.args
    THEN login.args["extraQueryParams"] ELSE EmptyObject
\* the routing key and the option it is produced for
RoutingKeys ==
    { << "organizationId", "organization_id" >>, << "connectionId", "connection_id" >>,
      << "loginHint", "login_hint" >> }
CallerParams ==
    IF "extraQueryParams" \in DOMAIN login.options
    THEN login.options["extraQueryParams"] ELSE EmptyObject

\* C26 (as stated): the parameters sent are organization_id, connection_id
\* and login_hint for each of those options that is supplied, with the
\* caller's extraQueryParams merged on top (the caller's value wins), and no
\* routing key is produced for an option that was not supplied.
C26_RoutingKeyForEverySuppliedOption ==
    login.via # "none" =>
        /\ \A k \in DOMAIN CallerParams :
              k \in DOMAIN SentParams /\ SentParams[k] = CallerParams[k]
        /\ \A rk \in RoutingKeys :
              rk[2] \notin DOMAIN CallerParams =>
                  IF rk[1] \in DOMAIN login.options
                  THEN rk[2] \in DOMAIN SentParams
                       /\ SentParams[rk[2]] = login.options[rk[1]]
                  ELSE rk[2] \notin DOMAIN SentParams
        /\ DOMAIN SentParams \subseteq
               DOMAIN CallerParams \cup {rk[2] : rk \in RoutingKeys}

\* C26: the parameters sent are organization_id, connection_id and
\* login_hint for each of those options that is supplied with a non-empty
\* value, with the caller's extraQueryParams merged on top (the caller's
\* value wins on every shared key), and no routing key is produced for an
\* option that is absent or empty.
C26_RoutingParams ==
    login.via # "none" =>
        /\ \A k \in DOMAIN CallerParams :
              k \in DOMAIN SentParams /\ SentParams[k] = CallerParams[k]
        /\ \A rk \in RoutingKeys :
              rk[2] \notin DOMAIN CallerParams =>
                  IF rk[1] \in DOMAIN login.options /\ login.options[rk[1]] # ""
                  THEN rk[2] \in DOMAIN SentParams
                       /\ SentParams[rk[2]] = login.options[rk[1]]
                  ELSE rk[2] \notin DOMAIN SentParams
        /\ DOMAIN SentParams \subseteq
               DOMAIN CallerParams \cup {rk[2] : rk \in RoutingKeys}

\* an organization and a login hint were given and the caller's own
\* login_hint collided with the routing one: the caller's value was sent
C26_Witness ==
    /\ login.via = "signinPopup"
    /\ DOMAIN login.options = {"organizationId", "loginHint", "extraQueryParams"}
    /\ login.options["loginHint"] = "given"
    /\ CallerParams = [k \in {"login_hint", "prompt"} |-> "caller"]
    /\ SentParams = [k \in {"organization_id", "login_hint", "prompt"} |->
                        IF k = "organization_id" THEN "given" ELSE "caller"]

\* a granted scope string: at least one character, none of them a space
ScopeToken(str) == Len(str) > 0 /\ \A i \in DOMAIN str : str[i] # " "

\* C27 (as stated): the scopes of the mapped Session User are the scope
\* string split at its spaces, in order ("o p" gives <<"o", "p">>), they are
\* empty when the session has no scope, and for every input they contain
\* only granted scope strings.
C27_ScopesAreGrantedScopes ==
    mapping.done =>
        /\ "scope" \notin DOMAIN mapping.oidcUser => mapping.scopes = << >>
        /\ ( "scope" \in DOMAIN mapping.oidcUser
             /\ mapping.oidcUser["scope"] = << "o", " ", "p" >> )
               => mapping.scopes = << << "o" >>, << "p" >> >>
        /\ \A i \in DOMAIN mapping.scopes : ScopeToken(mapping.scopes[i])

\* C30 (as stated): a dispatch replaces the held AuthState in one atomic
\* step: no observer, a subscriber notified synchronously on a field change
\* included, ever sees a state in which only some of the four fields carry
\* their post-dispatch values, i.e. a state outside the four variants.
C30_NoPartialStateObserved ==
    \A i \in DOMAIN observer.seen :
        LET s == observer.seen[i]
        IN /\ \/ Initializing(s) \/ Unauthenticated(s)
              \/ Authenticated(s) \/ Errored(s)
           /\ s = dispatch(observer.before, observer.action)

\* the guard has read the state and taken its decision
GuardDecided == guard.pc \in {"signinRedirect", "loginRejected", "done"}
\* the returnTo the guard is expected to ask for
ExpectedReturnTo ==
    IF "returnTo" \in DOMAIN guard.options THEN guard.options["returnTo"] ELSE "/target"

\* C28 (as stated): the route guard never decides while the state is
\* loading; once loading has finished it returns true iff the state is
\* Authenticated, and otherwise it calls loginWithRedirect exactly once with
\* the configured returnTo or else the target's full path and returns false,
\* also when that call rejects.
C28_GuardDecision ==
    GuardDecided =>
        /\ ~guard.decidedOn.isLoading
        /\ guard.result = "true" <=> Authenticated(guard.decidedOn)
        /\ ~Authenticated(guard.decidedOn) =>
               /\ guard.loginCalls = << [returnTo |-> ExpectedReturnTo] >>
               /\ guard.pc = "done" => guard.result = "false"

\* C28: a guard that holds the auth instance (createGlobalAuthGuard, and
\* createAuthGuard when inject finds it) never decides while the state is
\* loading; once loading has finished it returns true iff the state is
\* Authenticated, and otherwise, unless its onRedirecting callback throws,
\* it calls loginWithRedirect exactly once with the configured returnTo or
\* else the target's full path and returns false, also when that call
\* rejects.  When onRedirecting throws the guard rejects without calling
\* loginWithRedirect, and createAuthGuard without an instance returns false
\* at once, in any state, without calling it either.
C28_GuardWithInstance ==
    GuardDecided =>
        IF guard.injected
        THEN /\ ~guard.decidedOn.isLoading
             /\ guard.result = "true" <=> Authenticated(guard.decidedOn)
             /\ Authenticated(guard.decidedOn) => guard.loginCalls = << >>
             /\ ~Authenticated(guard.decidedOn) =>
                   IF guard.onRedirecting = "throws"
                   THEN guard.loginCalls = << >> /\ guard.result = "threw"
                   ELSE /\ guard.loginCalls = << [returnTo |-> ExpectedReturnTo] >>
                        /\ guard.pc = "done" => guard.result = "false"
        ELSE guard.loginCalls = << >> /\ guard.result = "false"

\* the guard waited for loading to finish, found an Errored state, asked
\* for a login with the empty returnTo it was configured with, the login
\* was rejected by the engine and the guard returned false
C28_Witness ==
    /\ guard.pc = "done" /\ guard.polled
    /\ Errored(guard.decidedOn)
    /\ guard.options = [k \in {"returnTo"} |-> ""]
    /\ guard.loginCalls = << [returnTo |-> ""] >>
    /\ guard.loginOutcome = "rejected" /\ guard.result = "false"

\* the names of the typed error taxonomy
TypedErrors ==
    {"LoginError", "TokenRefreshError", "LogoutError", "ConfigurationError",
     "CallbackError", "NotInitializedError", "NotAuthenticatedError"}

\* C32 (as stated): every error held in an Errored state is an error of the
\* typed taxonomy, whether the failure came from a public operation, from
\* initialization or from an engine notification.
C32_ErroredHoldsTypedError ==
    Errored(state) => state.error.name \in TypedErrors

\* C36: the store never keeps a superseded session: whenever no operation
\* of the controller is in flight and the state is Authenticated, the engine
\* holds a persisted session and state.user carries that session's access
\* token.
C36_StoreFollowsEngineSession ==
    ( /\ \A p \in Slots : calls[p].op = "idle"
      /\ pcInit = "settled"
      /\ Authenticated(state) )
        => /\ engineUser # Null
           /\ state.user.accessToken = engineUser.access_token

\* two renewals have landed one after the other and nothing is in flight:
\* the store carries the token of the later one
C36_Witness ==
    /\ \A p \in Slots : calls[p].op = "idle"
    /\ pcInit = "settled" /\ Authenticated(state)
    /\ used = 2 /\ nextTok = 3
    /\ engineUser # Null /\ engineUser.access_token = 3
    /\ state.user.accessToken = 3

\* C33: hasAuthParams is true iff the query parameters include a code
\* parameter or an error parameter; state, error_description or
\* session_state alone never make it true.
C33_DetectsCodeOrError ==
    cleanup.detected # << >> =>
        /\ cleanup.detected[1] <=>
               \E i \in DOMAIN cleanup.input : cleanup.input[i] \in {"code", "error"}
        /\ (\A i \in DOMAIN cleanup.input :
                cleanup.input[i] \in {"state", "error_description", "session_state"})
               => ~cleanup.detected[1]

\* a query string made of state, session_state and error_description only
\* was looked at and is not taken for a callback
C33_Witness ==
    /\ cleanup.detected = << FALSE >>
    /\ cleanup.input = << "state", "session_state", "error_description" >>

\* C34: cleanupAuthParams removes all five OIDC redirect parameters
\* together and leaves every other query parameter as it was, in place and
\* in order; it rewrites the address by history.replaceState, and does not
\* touch the history when none of the five is present.
C34_CleanupFrame ==
    cleanup.runs >= 1 =>
        LET carried == \E i \in DOMAIN cleanup.input : cleanup.input[i] \in OIDC_PARAMS
        IN /\ cleanup.after[1] =
                  SelectSeq(cleanup.input, LAMBDA name : name \notin OIDC_PARAMS)
           /\ carried <=> (cleanup.replacedAt # << >> /\ cleanup.replacedAt[1] = 1)
           /\ ~carried => cleanup.replacedAt = << >> /\ cleanup.after[1] = cleanup.input

\* session_state and error_description stood around a parameter of the
\* page: one replaceState, and the page's parameter is what is left
C34_Witness ==
    /\ cleanup.runs = 1
    /\ cleanup.input = << "session_state", "page", "error_description" >>
    /\ cleanup.search = << "page" >>
    /\ cleanup.replacedAt = << 1 >>

\* dispatch(action) has made all its assignments
Dispatched == observer.pc = Len(assignments(observer.action))

\* C31: the state resulting from an action of the AuthAction vocabulary does
\* not depend on the prior state: from any two prior states the reducer
\* yields the same AuthState, and so does the store's dispatch; only
\* INITIALIZED branches, on whether it carries a user.
C31_ResultIgnoresPriorState ==
    (observer.reduced # << >> /\ observer.action.type # "UNKNOWN") =>
        /\ observer.reduced[1] = observer.reduced[2]
        /\ Dispatched => state = observer.reduced[2]
        /\ observer.action.type = "INITIALIZED" =>
               (Authenticated(observer.reduced[1]) <=> observer.action.user # Null)

\* LOGIN_STARTED was applied to an Errored and to an Authenticated state and
\* both ended in the same loading state without error
C31_Witness ==
    /\ observer.reduced # << >> /\ Dispatched
    /\ observer.action.type = "LOGIN_STARTED"
    /\ Errored(observer.before) /\ Authenticated(observer.other)
    /\ state = initialAuthState /\ observer.reduced[2] = initialAuthState

\* C35: dispatch and authReducer implement the same transition function:
\* for every prior state and every action, the store after dispatch(action)
\* equals authReducer(prior, action), for INITIALIZED with and without a
\* user and for an action of unknown type too.
C35_DispatchEqualsReducer ==
    (observer.reduced # << >> /\ Dispatched) => state = observer.reduced[1]

\* an action of unknown type on an Authenticated state: both leave it as it
\* was
C35_Witness ==
    /\ observer.reduced # << >> /\ Dispatched
    /\ observer.action.type = "UNKNOWN"
    /\ Authenticated(observer.before)
    /\ state = observer.before /\ observer.reduced[1] = observer.before

\* C40: a returnTo value passed to loginWithRedirect comes back to the
\* application: when initialize() handles the resulting response itself,
\* onRedirectCallback is invoked with appState.returnTo equal to the value
\* that was passed
C40_ReturnToComesBack ==
    (login.via = "returned" /\ Truthy(login.options, "returnTo")) =>
        \A i \in DOMAIN onRedirectCalls :
            onRedirectCalls[i].user # Null =>
                onRedirectCalls[i].appState = [returnTo |-> login.options["returnTo"]]
\* the value was sent to the engine and the callback has been invoked
C40_Sent ==
    /\ login.via = "returned" /\ Truthy(login.options, "returnTo")
    /\ login.userState = [returnTo |-> login.options["returnTo"]]
    /\ onRedirectCalls # << >>

\* C38: after construction the state eventually leaves Initializing
\* (isLoading becomes false), for every configuration, when every call into
\* the engine settles
C38_LeavesInitializing == <>(~state.isLoading)

\* C39: every invocation of the route guard eventually resolves, when every
\* call into the engine settles: the wait for isLoading to become false ends
C39_GuardResolves == <>(guard.pc = "done")

\* C37: useAccessToken never exposes a token for a signed-out user: once
\* its fetches have settled and its watcher has run, accessToken is non-null
\* only if the AuthState is Authenticated
C37_NoTokenUnlessAuthenticated ==
    (token.mounted /\ Quiet /\ TokenFetches = {}) =>
        (token.accessToken # Null => Authenticated(state))

====
